---- MODULE Spec2Model ----
(***************************************************************************)
(* State-machine model of synthkeyboard.py: Note, Voice, Timer,            *)
(* Arpeggiator, Sequencer and Keyboard.                                    *)
(*                                                                         *)
(* Velocities, gate and probability are kept in tenths (10 = 1.0).         *)
(* A Note object is a record; its identity (Python `is`) is the field id.  *)
(* time.monotonic() is the variable clock, advanced by the action Tick.    *)
(***************************************************************************)
EXTENDS Integers, Sequences, FiniteSets, TLC

\* ---------------------------------------------------------------- bounds
MaxVoices == 2
MaxClock == 1
MaxOctaves == 1
MaxRaw == 3
MaxTrace == 5
MaxLength == 2
MaxTracks == 2
MaxCells == 2
MaxPending == 1
MaxTime == 500
MaxIdle == 10

Pitches == {60, 64}
Velocities == {10}
Probabilities == {5, 10}

\* ------------------------------------------------------ program constants
HIGH == 0
LOW == 1
LAST == 2

UP == 0
DOWN == 1
UPDOWN == 2
DOWNUP == 3
PLAYED == 4
RANDOM == 5

\* ------------------------------------------------------------- variables
VARIABLES
  k_notes,        \* Keyboard._notes
  k_sustained,    \* Keyboard._sustained
  k_sustain,      \* Keyboard._sustain
  k_mode,         \* Keyboard._mode
  max_voices,     \* Keyboard._max_voices
  voices,         \* Keyboard._voices
  arpeggiator,    \* Keyboard._arpeggiator is set
  a_active,       \* Arpeggiator._active
  a_raw_notes,    \* Arpeggiator._raw_notes
  a_notes,        \* Arpeggiator._notes
  a_pos,          \* Arpeggiator._pos
  a_mode,         \* Arpeggiator._mode
  a_octaves,      \* Arpeggiator._octaves
  a_probability,  \* Arpeggiator._probability
  a_press,        \* Arpeggiator.press is registered
  a_release,      \* Arpeggiator.release is registered
  a_pc,           \* position of the arpeggiator's Timer.update coroutine
  last_press,     \* Timer._last_press
  s_data,         \* Sequencer._data
  s_length,       \* Sequencer._length
  s_tracks,       \* Sequencer._tracks
  s_pos,          \* Sequencer._pos
  s_active,       \* Sequencer._active
  s_press,        \* Sequencer.press is registered
  s_release,      \* Sequencer.release is registered
  s_pc,           \* position of the sequencer's Timer.update coroutine
  s_error,        \* the last Sequencer call raised IndexError
  clock,          \* time.monotonic(), in milliseconds
  events,         \* callbacks invoked by the last operation, in order
  a_trace,        \* history: the standalone arpeggiator's steps since its notes changed
  a_fresh,        \* history: a_trace began at a cursor reset
  s_trace,        \* history: the sequencer's steps since its grid changed
  a_step,         \* Arpeggiator.step is registered
  a_enabled,      \* Arpeggiator.enabled is registered (standalone)
  s_step,         \* Sequencer.step is registered
  s_enabled,      \* Sequencer.enabled is registered
  t_bpm,          \* Timer._bpm of the arpeggiator
  t_steps,        \* Timer._steps of the arpeggiator, in quarters (1 = 0.25)
  t_gate,         \* Timer._gate of the arpeggiator, in tenths
  t_step_time,    \* Timer._step_time, in milliseconds
  t_gate_duration,\* Timer._gate_duration, in milliseconds
  t_now,          \* Timer._now, the cursor of Timer._sleep, in milliseconds
  t_wake,         \* the time at which the pending asyncio.sleep of the timer ends
  t_count,        \* history: steps taken since the timer was enabled
  t_slept,        \* history: time suspended since the first step after enable
  cls_notes,      \* Keyboard._notes, the list of the class attribute
  k_own,          \* the Keyboard has an instance attribute _notes
  k2_own,         \* a second Keyboard has an instance attribute _notes
  k2_notes,       \* the list _notes of the second Keyboard resolves to
  k2_sustained,   \* _sustained of the second Keyboard
  k2_sustain,     \* _sustain of the second Keyboard
  k2_voices       \* _voices of the second Keyboard, <<>> before it is constructed

vars == <<k_notes, k_sustained, k_sustain, k_mode, max_voices, voices,
          arpeggiator, a_active, a_raw_notes, a_notes, a_pos, a_mode,
          a_octaves, a_probability, a_press, a_release, a_pc, last_press,
          s_data, s_length, s_tracks, s_pos, s_active, s_press, s_release,
          s_pc, s_error, clock, events, a_trace, a_fresh, s_trace,
          a_step, a_enabled, s_step, s_enabled, t_bpm, t_steps, t_gate,
          t_step_time, t_gate_duration, t_now, t_wake, t_count, t_slept,
          cls_notes, k_own, k2_own, k2_notes, k2_sustained, k2_sustain,
          k2_voices>>

\* the second Keyboard and the class attribute; they change only where two
\* Keyboards are run side by side
kb2Vars == <<cls_notes, k_own, k2_own, k2_notes, k2_sustained, k2_sustain,
             k2_voices>>

kbVars == <<k_notes, k_sustained, k_sustain, k_mode, max_voices, voices, arpeggiator>>
arpVars == <<a_active, a_raw_notes, a_notes, a_pos, a_mode, a_octaves,
             a_probability, a_press, a_release, a_pc, a_trace, a_fresh>>
seqVars == <<s_data, s_length, s_tracks, s_pos, s_active, s_press, s_release,
             s_pc, s_error, s_trace>>

\* --------------------------------------------------------------- helpers
Min(a, b) == IF a < b THEN a ELSE b
Max(a, b) == IF a > b THEN a ELSE b
Abs(a) == IF a < 0 THEN -a ELSE a

\* list.sort(key=...): stable, ascending in keys (keys[i] is the key of s[i])
StableSort(s, keys) ==
  LET n == Len(s)
      rank(i) == Cardinality({j \in 1..n : keys[j] < keys[i]
                                           \/ (keys[j] = keys[i] /\ j < i)}) + 1
  IN [r \in 1..n |-> s[CHOOSE i \in 1..n : rank(i) = r]]

\* list.reverse()
Reverse(s) == [i \in 1..Len(s) |-> s[Len(s) + 1 - i]]

\* ------------------------------------------------------------------ Note
None == [id |-> 0, notenum |-> 0, velocity |-> 0, timestamp |-> 0]

Note(id, notenum, velocity, now) ==
  [id |-> id, notenum |-> notenum, velocity |-> velocity, timestamp |-> now]

\* Note.__eq__ on two Notes, or on a Note and an int
Note_eq(note, notenum) == note.notenum = notenum

\* list.remove(x): drops the first element equal (==) to x
list_remove(s, x) ==
  IF \E i \in 1..Len(s) : Note_eq(s[i], x.notenum)
  THEN LET i == CHOOSE i \in 1..Len(s) :
                  /\ Note_eq(s[i], x.notenum)
                  /\ \A j \in 1..(i - 1) : ~Note_eq(s[j], x.notenum)
       IN SubSeq(s, 1, i - 1) \o SubSeq(s, i + 1, Len(s))
  ELSE s

\* ----------------------------------------------------------------- Voice
Voice(index, now) == [index |-> index, time |-> now, note |-> None]

Voice_active(voice) == voice.note # None

\* ------------------------------------------------ the state as one record
\* Operators below take the whole program state st and return the new one.
State ==
  [notes |-> k_notes, sustained |-> k_sustained, sustain |-> k_sustain,
   mode |-> k_mode, max_voices |-> max_voices, voices |-> voices,
   arpeggiator |-> arpeggiator,
   a_active |-> a_active, a_raw_notes |-> a_raw_notes, a_notes |-> a_notes,
   a_pos |-> a_pos, a_mode |-> a_mode, a_octaves |-> a_octaves,
   a_probability |-> a_probability, a_press |-> a_press,
   a_release |-> a_release,
   last_press |-> last_press,
   s_data |-> s_data, s_length |-> s_length, s_tracks |-> s_tracks,
   s_pos |-> s_pos, s_active |-> s_active, s_press |-> s_press,
   s_release |-> s_release, s_error |-> FALSE,
   clock |-> clock, events |-> <<>>,
   a_step |-> a_step, a_enabled |-> a_enabled, s_step |-> s_step,
   s_enabled |-> s_enabled,
   t_bpm |-> t_bpm, t_steps |-> t_steps, t_gate |-> t_gate,
   t_step_time |-> t_step_time, t_gate_duration |-> t_gate_duration,
   t_now |-> t_now, t_wake |-> t_wake]

\* callbacks are logged in st.events
Fire(st, ev) == [st EXCEPT !.events = Append(@, ev)]

\* ids of the Note objects some list or voice still refers to
UsedIds(st) ==
  {st.notes[i].id : i \in 1..Len(st.notes)}
    \cup {st.sustained[i].id : i \in 1..Len(st.sustained)}
    \cup {st.voices[i].note.id : i \in 1..Len(st.voices)}

\* a new object is distinct from every live object
FreshId(st) == CHOOSE id \in 1..(Cardinality(UsedIds(st)) + 1) :
                 /\ id \notin UsedIds(st)
                 /\ \A j \in 1..(id - 1) : j \in UsedIds(st)

\* ------------------------------------------------------------ Arpeggiator
\* the arpeggiator reads only notenum and velocity of the notes it is given
ArpNotes(ns) == [i \in 1..Len(ns) |->
                   [notenum |-> ns[i].notenum, velocity |-> ns[i].velocity]]

NotenumKeys(ns) == [i \in 1..Len(ns) |-> ns[i].notenum]
NegNotenumKeys(ns) == [i \in 1..Len(ns) |-> -ns[i].notenum]

\* variant: the copies always go upwards, the sign of octaves is ignored
RECURSIVE OctaveCopies_upwards(_, _, _, _)
OctaveCopies_upwards(ns, l, octaves, octave) ==
  IF octave > Abs(octaves) THEN ns
  ELSE OctaveCopies_upwards(
         ns \o [i \in 1..l |->
                  [notenum |-> ns[i].notenum + octave * 12,
                   velocity |-> ns[i].velocity]],
         l, octaves, octave + 1)

\* the octave loop of _get_notes: one pass per octave over the first l notes
RECURSIVE OctaveCopies(_, _, _, _)
OctaveCopies(ns, l, octaves, octave) ==
  IF octave > Abs(octaves) THEN ns
  ELSE OctaveCopies(
         ns \o [i \in 1..l |->
                  [notenum |-> ns[i].notenum
                                 + octave * (IF octaves < 0 THEN -1 ELSE 1) * 12,
                   velocity |-> ns[i].velocity]],
         l, octaves, octave + 1)

\* variant: UPDOWN and DOWNUP append the whole reversed list, extremes included
OrderNotes_repeat_extremes(ns, mode) ==
  IF mode = UP THEN StableSort(ns, NotenumKeys(ns))
  ELSE IF mode = DOWN THEN StableSort(ns, NegNotenumKeys(ns))
  ELSE IF mode = UPDOWN THEN
    LET srt == StableSort(ns, NotenumKeys(ns))
    IN IF Len(srt) > 2 THEN srt \o Reverse(srt) ELSE srt
  ELSE IF mode = DOWNUP THEN
    LET srt == StableSort(ns, NegNotenumKeys(ns))
    IN IF Len(srt) > 2 THEN srt \o Reverse(srt) ELSE srt
  ELSE ns

\* the mode branch of _get_notes
OrderNotes(ns, mode) ==
  IF mode = UP THEN StableSort(ns, NotenumKeys(ns))
  ELSE IF mode = DOWN THEN StableSort(ns, NegNotenumKeys(ns))
  ELSE IF mode = UPDOWN THEN
    LET srt == StableSort(ns, NotenumKeys(ns))
    IN IF Len(srt) > 2 THEN srt \o Reverse(SubSeq(srt, 2, Len(srt) - 1)) ELSE srt
  ELSE IF mode = DOWNUP THEN
    LET srt == StableSort(ns, NegNotenumKeys(ns))
    IN IF Len(srt) > 2 THEN srt \o Reverse(SubSeq(srt, 2, Len(srt) - 1)) ELSE srt
  ELSE ns

Arpeggiator_get_notes(ns, octaves, mode) ==
  IF ns = <<>> THEN ns
  ELSE OrderNotes(IF Abs(octaves) > 0 THEN OctaveCopies(ns, Len(ns), octaves, 1)
                  ELSE ns, mode)

\* Arpeggiator._reset(immediate=True), with Timer._reset
Arpeggiator_reset(st) ==
  [st EXCEPT !.t_now = st.clock - st.t_step_time, !.a_pos = 0]

\* Arpeggiator.notes setter (value is a list of Notes)
Arpeggiator_set_notes(st, value) ==
  LET st1 == IF st.a_notes = <<>> THEN Arpeggiator_reset(st) ELSE st
  IN [st1 EXCEPT !.a_raw_notes = ArpNotes(value),
                 !.a_notes = Arpeggiator_get_notes(ArpNotes(value), st.a_octaves, st.a_mode)]

\* --------------------------------------------------------------- Keyboard
all_notes(st) == st.notes \o st.sustained

\* variant: the view is not cut to max_voices
Keyboard_notes_uncut(st) ==
  LET ns == all_notes(st)
      keys == [i \in 1..Len(ns) |->
                 IF st.mode = HIGH THEN -ns[i].notenum
                 ELSE IF st.mode = LOW THEN ns[i].notenum
                 ELSE ns[i].timestamp]
  IN StableSort(ns, keys)

\* Keyboard.notes: the selection view
Keyboard_notes(st) ==
  LET ns == all_notes(st)
      keys == [i \in 1..Len(ns) |->
                 IF st.mode = HIGH THEN -ns[i].notenum
                 ELSE IF st.mode = LOW THEN ns[i].notenum
                 ELSE ns[i].timestamp]
      srt == StableSort(ns, keys)
  IN SubSeq(srt, 1, Min(Len(srt), st.max_voices))

VoiceTimes(vs, idx) == [j \in 1..Len(idx) |-> vs[idx[j]].time]

\* Keyboard.active_voices / inactive_voices, as positions in st.voices
active_voices(st) ==
  LET idx == SelectSeq([i \in 1..Len(st.voices) |-> i],
                       LAMBDA i : Voice_active(st.voices[i]))
  IN StableSort(idx, VoiceTimes(st.voices, idx))

inactive_voices(st) ==
  LET idx == SelectSeq([i \in 1..Len(st.voices) |-> i],
                       LAMBDA i : ~Voice_active(st.voices[i]))
  IN StableSort(idx, VoiceTimes(st.voices, idx))

\* what a voice callback is handed: the voice as it is when the callback runs
VoiceEvent(type, voice) ==
  [type |-> type, index |-> voice.index, active |-> Voice_active(voice),
   notenum |-> voice.note.notenum]

press_voice(st, i, note) ==
  LET st1 == [st EXCEPT !.voices[i].note = note, !.voices[i].time = st.clock]
  IN Fire(st1, VoiceEvent("voice_press", st1.voices[i]))

\* variant: the note is cleared before the release callback runs
release_voice_clear_first(st, i) ==
  IF Voice_active(st.voices[i])
  THEN LET st1 == [st EXCEPT !.voices[i].note = None]
       IN Fire(st1, VoiceEvent("voice_release", st1.voices[i]))
  ELSE st

release_voice(st, i) ==
  IF Voice_active(st.voices[i])
  THEN [Fire(st, VoiceEvent("voice_release", st.voices[i]))
          EXCEPT !.voices[i].note = None]
  ELSE st

RECURSIVE ReleaseAll(_, _, _)
ReleaseAll(st, vs, j) ==
  IF j > Len(vs) THEN st ELSE ReleaseAll(release_voice(st, vs[j]), vs, j + 1)

\* variant: a voice whose note is not in notes is left as it is
RECURSIVE KeepOrRelease_keep_all(_, _, _, _)
KeepOrRelease_keep_all(st, vs, j, notes) ==
  IF j > Len(vs) THEN [st |-> st, notes |-> notes]
  ELSE LET note == st.voices[vs[j]].note
           has_note == \E n \in 1..Len(notes) : notes[n].id = note.id
       IN IF ~has_note
          THEN KeepOrRelease_keep_all(st, vs, j + 1, notes)
          ELSE KeepOrRelease_keep_all(st, vs, j + 1, list_remove(notes, note))

\* first loop of _update_voices: release the voices whose note is not in
\* notes (by identity), drop the kept notes from notes
RECURSIVE KeepOrRelease(_, _, _, _)
KeepOrRelease(st, vs, j, notes) ==
  IF j > Len(vs) THEN [st |-> st, notes |-> notes]
  ELSE LET note == st.voices[vs[j]].note
           has_note == \E n \in 1..Len(notes) : notes[n].id = note.id
       IN IF ~has_note
          THEN KeepOrRelease(release_voice(st, vs[j]), vs, j + 1, notes)
          ELSE KeepOrRelease(st, vs, j + 1, list_remove(notes, note))

\* second loop of _update_voices: notes[n] goes to the n-th inactive voice
RECURSIVE PressEach(_, _, _, _)
PressEach(st, vs, notes, n) ==
  IF n > Len(notes) \/ n > Len(vs) THEN st
  ELSE PressEach(press_voice(st, vs[n], notes[n]), vs, notes, n + 1)

\* Keyboard._update_voices(notes); notes = <<>> stands for None and for []
update_voices(st, notes) ==
  IF notes = <<>> THEN ReleaseAll(st, active_voices(st), 1)
  ELSE LET r == KeepOrRelease(st, active_voices(st), 1, notes)
       IN IF r.notes # <<>> /\ inactive_voices(r.st) # <<>>
          THEN PressEach(r.st, inactive_voices(r.st), r.notes, 1)
          ELSE r.st

\* variant: the active arpeggiator is given the selection view
Keyboard_update_selection(st) ==
  IF ~st.arpeggiator \/ ~st.a_active
  THEN update_voices(st, Keyboard_notes(st))
  ELSE Arpeggiator_set_notes(st, Keyboard_notes(st))

\* Keyboard._update
Keyboard_update(st) ==
  IF ~st.arpeggiator \/ ~st.a_active
  THEN update_voices(st, Keyboard_notes(st))
  ELSE Arpeggiator_set_notes(st, all_notes(st))

\* the list comprehension [note for note in notes if note != notenum]
Without(ns, notenum) == SelectSeq(ns, LAMBDA note : ~Note_eq(note, notenum))

\* variant: the voices are not re-allocated after a removal
Keyboard_remove_no_update(st, notenum, remove_sustained) ==
  IF ~(\E i \in 1..Len(all_notes(st)) : Note_eq(all_notes(st)[i], notenum))
  THEN st
  ELSE [st EXCEPT !.notes = Without(@, notenum),
                  !.sustained = IF remove_sustained /\ st.sustain /\ st.sustained # <<>>
                                THEN Without(@, notenum) ELSE @]

\* variant: no early return when the pitch is in neither list
Keyboard_remove_no_return(st, notenum, remove_sustained) ==
  Keyboard_update(
    [st EXCEPT !.notes = Without(@, notenum),
               !.sustained = IF remove_sustained /\ st.sustain /\ st.sustained # <<>>
                             THEN Without(@, notenum) ELSE @])

Keyboard_remove(st, notenum, remove_sustained) ==
  IF ~(\E i \in 1..Len(all_notes(st)) : Note_eq(all_notes(st)[i], notenum))
  THEN st
  ELSE Keyboard_update(
         [st EXCEPT !.notes = Without(@, notenum),
                    !.sustained = IF remove_sustained /\ st.sustain /\ st.sustained # <<>>
                                  THEN Without(@, notenum) ELSE @])

\* variant: an existing note of the same pitch is not removed first
Keyboard_append_keep(st, notenum, velocity) ==
  LET note == Note(FreshId(st), notenum, velocity, st.clock)
  IN Keyboard_update(
       [st EXCEPT !.notes = Append(@, note),
                  !.sustained = IF st.sustain THEN Append(@, note) ELSE @])

Keyboard_append(st, notenum, velocity) ==
  LET st1 == Keyboard_remove(st, notenum, TRUE)
      note == Note(FreshId(st1), notenum, velocity, st1.clock)
  IN Keyboard_update(
       [st1 EXCEPT !.notes = Append(@, note),
                   !.sustained = IF st1.sustain THEN Append(@, note) ELSE @])

Keyboard_set_sustain(st, value) ==
  IF value # st.sustain
  THEN Keyboard_update([st EXCEPT !.sustain = value,
                                  !.sustained = IF value THEN st.notes ELSE <<>>])
  ELSE st

Keyboard_set_mode(st, value) == [st EXCEPT !.mode = value % 3]

\* the shrink loop of the max_voices setter: release and delete from the end
RECURSIVE ShrinkVoices(_, _)
ShrinkVoices(st, i) ==
  IF i < st.max_voices + 1 THEN st
  ELSE LET st1 == release_voice(st, i)
       IN ShrinkVoices([st1 EXCEPT !.voices = SubSeq(@, 1, i - 1)], i - 1)

Keyboard_set_max_voices(st, value) ==
  LET st1 == [st EXCEPT !.max_voices = Max(value, 1)]
      st2 == IF Len(st1.voices) > st1.max_voices
             THEN ShrinkVoices(st1, Len(st1.voices))
             ELSE IF Len(st1.voices) < st1.max_voices
             THEN [st1 EXCEPT !.voices =
                     @ \o [i \in 1..(st1.max_voices - Len(@)) |->
                             Voice(Len(@) + i - 1, st1.clock)]]
             ELSE st1
  IN update_voices(st2, <<>>)

\* Keyboard._timer_press / _timer_release
Keyboard_timer_press(st, notenum, velocity) ==
  update_voices(st, <<Note(FreshId(st), notenum, velocity, st.clock)>>)

Keyboard_timer_release(st, notenum) == update_voices(st, <<>>)

\* ------------------------------------------------------------------ Timer
\* Timer._update_timing: 60 / bpm / steps seconds, steps counted in quarters
\* a division by zero raises ZeroDivisionError before either assignment
Timer_update_timing(st) ==
  IF st.t_bpm * st.t_steps = 0
  THEN Fire(st, [type |-> "error", error |-> "ZeroDivisionError"])
  ELSE LET step_time == 240000 \div (st.t_bpm * st.t_steps)
       IN [st EXCEPT !.t_step_time = step_time,
                     !.t_gate_duration = (st.t_gate * step_time) \div 10]

\* Timer.bpm, Timer.steps (TimerStep.WHOLE = 0.25) and Timer.gate setters
\* variant: the bpm setter stores the value without the floor of 1
Timer_set_bpm_unfloored(st, value) == Timer_update_timing([st EXCEPT !.t_bpm = value])

Timer_set_bpm(st, value) == Timer_update_timing([st EXCEPT !.t_bpm = Max(value, 1)])

Timer_set_steps(st, value) == Timer_update_timing([st EXCEPT !.t_steps = Max(value, 1)])

Timer_set_gate(st, value) ==
  Timer_update_timing([st EXCEPT !.t_gate = Min(Max(value, 0), 10)])

\* Timer._sleep up to the await: the cursor moves on by delay and the
\* coroutine is suspended for the time left until the cursor, if any
Timer_sleep(st, delay) ==
  [st EXCEPT !.t_now = @ + delay, !.t_wake = Max(st.clock, st.t_now + delay)]

\* the end of the asyncio.sleep of Timer._sleep
Timer_wake(st) == [st EXCEPT !.clock = Max(st.clock, st.t_wake)]

\* Timer._do_press of the arpeggiator; the press callback of an arpeggiator
\* attached to a Keyboard is Keyboard._timer_press
Arpeggiator_do_press(st, notenum, velocity) ==
  IF st.a_press
  THEN LET st1 == Fire(st, [type |-> "press", timer |-> "arpeggiator",
                            notenum |-> notenum, velocity |-> velocity])
           st2 == IF st.arpeggiator
                  THEN Keyboard_timer_press(st1, notenum, velocity) ELSE st1
       IN [st2 EXCEPT !.last_press = Append(@, notenum)]
  ELSE st

RECURSIVE ArpReleaseEach(_, _, _)
ArpReleaseEach(st, pending, j) ==
  IF j > Len(pending) THEN st
  ELSE LET st1 == Fire(st, [type |-> "release", timer |-> "arpeggiator",
                            notenum |-> pending[j], velocity |-> 0])
       IN ArpReleaseEach(IF st.arpeggiator
                         THEN Keyboard_timer_release(st1, pending[j]) ELSE st1,
                         pending, j + 1)

\* variant: the pending pitches are forgotten without a call of release
Arpeggiator_do_release_silent(st) ==
  IF st.a_release /\ st.last_press # <<>>
  THEN [st EXCEPT !.last_press = <<>>]
  ELSE st

\* variant: the pending pitches are released but not forgotten
Arpeggiator_do_release_keep(st) ==
  IF st.a_release /\ st.last_press # <<>>
  THEN ArpReleaseEach(st, st.last_press, 1)
  ELSE st

\* Timer._do_release of the arpeggiator
Arpeggiator_do_release(st) ==
  IF st.a_release /\ st.last_press # <<>>
  THEN [ArpReleaseEach(st, st.last_press, 1) EXCEPT !.last_press = <<>>]
  ELSE st

\* Keyboard._timer_enabled: self.update() only creates a coroutine object
Keyboard_timer_enabled(st, active) ==
  IF active THEN Arpeggiator_set_notes(st, all_notes(st)) ELSE st

\* variant: no early return when the value is the current one
Arpeggiator_set_active_again(st, value) ==
  LET st1 == [st EXCEPT !.a_active = value]
      st2 == IF value
             THEN [st1 EXCEPT !.t_now = st.clock - st.t_step_time]
             ELSE Arpeggiator_do_release(st1)
  IN IF st.arpeggiator
     THEN Keyboard_timer_enabled(
            Fire(st2, [type |-> "enabled", timer |-> "arpeggiator",
                       active |-> value]), value)
     ELSE IF st.a_enabled
     THEN Fire(st2, [type |-> "enabled", timer |-> "arpeggiator",
                     active |-> value])
     ELSE st2

\* Timer.active setter of the arpeggiator
Arpeggiator_set_active(st, value) ==
  IF value = st.a_active THEN st
  ELSE LET st1 == [st EXCEPT !.a_active = value]
           st2 == IF value
                  THEN [st1 EXCEPT !.t_now = st.clock - st.t_step_time]
                  ELSE Arpeggiator_do_release(st1)
       IN IF st.arpeggiator
          THEN Keyboard_timer_enabled(
                 Fire(st2, [type |-> "enabled", timer |-> "arpeggiator",
                            active |-> value]), value)
          ELSE IF st.a_enabled
          THEN Fire(st2, [type |-> "enabled", timer |-> "arpeggiator",
                          active |-> value])
          ELSE st2

\* Timer._do_step, which the Arpeggiator inherits: the body is the bare
\* expression `self.step`, the callback is looked up and never called
Arpeggiator_do_step(st) == IF st.a_step THEN st ELSE st

\* variant: the cursor advances by two
Arpeggiator_update_by_two(st, skip, r) ==
  IF st.a_notes # <<>>
  THEN IF st.a_probability < 10 /\ (st.a_probability = 0 \/ skip)
       THEN st
       ELSE LET pos == IF st.a_mode = RANDOM THEN r
                       ELSE (st.a_pos + 2) % Len(st.a_notes)
            IN Arpeggiator_do_press([st EXCEPT !.a_pos = pos],
                                    st.a_notes[pos + 1].notenum,
                                    st.a_notes[pos + 1].velocity)
  ELSE st

\* variant: the cursor wraps one entry past the end of notes, where the
\* pitch read is none of the notes
Arpeggiator_update_past_end(st, skip, r) ==
  IF st.a_notes # <<>>
  THEN IF st.a_probability < 10 /\ (st.a_probability = 0 \/ skip)
       THEN st
       ELSE LET pos == IF st.a_mode = RANDOM THEN r
                       ELSE (st.a_pos + 1) % (Len(st.a_notes) + 1)
            IN Arpeggiator_do_press(
                 [st EXCEPT !.a_pos = pos],
                 IF pos < Len(st.a_notes) THEN st.a_notes[pos + 1].notenum ELSE 0,
                 IF pos < Len(st.a_notes) THEN st.a_notes[pos + 1].velocity ELSE 0)
  ELSE st

\* Arpeggiator._update; skip is the outcome of random.random() > probability
\* and r the outcome of random.randrange(0, len(notes))
Arpeggiator_update(st, skip, r) ==
  IF st.a_notes # <<>>
  THEN IF st.a_probability < 10 /\ (st.a_probability = 0 \/ skip)
       THEN st
       ELSE LET pos == IF st.a_mode = RANDOM THEN r
                       ELSE (st.a_pos + 1) % Len(st.a_notes)
            IN Arpeggiator_do_press([st EXCEPT !.a_pos = pos],
                                    st.a_notes[pos + 1].notenum,
                                    st.a_notes[pos + 1].velocity)
  ELSE st

\* Arpeggiator.octaves setter
Arpeggiator_set_octaves(st, value) ==
  LET st1 == [st EXCEPT !.a_octaves = value]
  IN IF st1.a_notes # <<>> THEN Arpeggiator_set_notes(st1, st1.a_raw_notes) ELSE st1

\* variant: the playback list, not the raw notes, is assigned again
Arpeggiator_set_mode_accumulate(st, value) ==
  LET st1 == [st EXCEPT !.a_mode = value % 6]
  IN IF st1.a_notes # <<>> THEN Arpeggiator_set_notes(st1, st1.a_notes) ELSE st1

\* Arpeggiator.mode setter
Arpeggiator_set_mode(st, value) ==
  LET st1 == [st EXCEPT !.a_mode = value % 6]
  IN IF st1.a_notes # <<>> THEN Arpeggiator_set_notes(st1, st1.a_raw_notes) ELSE st1

Arpeggiator_set_probability(st, value) ==
  [st EXCEPT !.a_probability = Min(Max(value, 0), 10)]

\* -------------------------------------------------------------- Sequencer
EmptyCell == <<>>

Sequencer_do_press(st, notenum, velocity) ==
  IF st.s_press
  THEN [Fire(st, [type |-> "press", timer |-> "sequencer",
                  notenum |-> notenum, velocity |-> velocity])
          EXCEPT !.last_press = Append(@, notenum)]
  ELSE st

RECURSIVE SeqReleaseEach(_, _, _)
SeqReleaseEach(st, pending, j) ==
  IF j > Len(pending) THEN st
  ELSE SeqReleaseEach(Fire(st, [type |-> "release", timer |-> "sequencer",
                                notenum |-> pending[j], velocity |-> 0]),
                      pending, j + 1)

Sequencer_do_release(st) ==
  IF st.s_release /\ st.last_press # <<>>
  THEN [SeqReleaseEach(st, st.last_press, 1) EXCEPT !.last_press = <<>>]
  ELSE st

\* variant: the enabled callback runs before the open notes are released
Sequencer_set_active_enabled_first(st, value) ==
  IF value = st.s_active THEN st
  ELSE LET st1 == [st EXCEPT !.s_active = value]
           st2 == IF st.s_enabled
                  THEN Fire(st1, [type |-> "enabled", timer |-> "sequencer",
                                  active |-> value])
                  ELSE st1
       IN IF value THEN st2 ELSE Sequencer_do_release(st2)

\* Timer.active setter of the sequencer
Sequencer_set_active(st, value) ==
  IF value = st.s_active THEN st
  ELSE LET st1 == [st EXCEPT !.s_active = value]
           st2 == IF value THEN st1 ELSE Sequencer_do_release(st1)
       IN IF st.s_enabled
          THEN Fire(st2, [type |-> "enabled", timer |-> "sequencer",
                          active |-> value])
          ELSE st2

\* variant: a cell is pressed whatever its velocity
RECURSIVE PressTracks_any_velocity(_, _)
PressTracks_any_velocity(st, i) ==
  IF i >= st.s_tracks THEN st
  ELSE LET note == st.s_data[i + 1][st.s_pos + 1]
       IN PressTracks_any_velocity(
            IF note # EmptyCell /\ note[1] > 0
            THEN Sequencer_do_press(st, note[1], note[2]) ELSE st,
            i + 1)

\* the track loop of Sequencer._update (tracks and positions are 0-based)
RECURSIVE PressTracks(_, _)
PressTracks(st, i) ==
  IF i >= st.s_tracks THEN st
  ELSE LET note == st.s_data[i + 1][st.s_pos + 1]
       IN PressTracks(IF note # EmptyCell /\ note[1] > 0 /\ note[2] > 0
                      THEN Sequencer_do_press(st, note[1], note[2]) ELSE st,
                      i + 1)

Sequencer_update(st) ==
  PressTracks([st EXCEPT !.s_pos = (st.s_pos + 1) % st.s_length], 0)

\* Sequencer._do_step
Sequencer_do_step(st) ==
  IF st.s_step
  THEN Fire(st, [type |-> "step", timer |-> "sequencer", pos |-> st.s_pos])
  ELSE st

\* min(max(value, 0), limit) as set_note, get_note and remove_note clamp
Clamp(value, limit) == Min(Max(value, 0), limit)

\* self._data[track][position] = cell; an index past the end raises IndexError
Sequencer_store(st, position, track, cell) ==
  LET t == Clamp(track, st.s_tracks)
      p == Clamp(position, st.s_length)
  IN IF t >= Len(st.s_data) \/ p >= Len(st.s_data[t + 1])
     THEN [st EXCEPT !.s_error = TRUE]
     ELSE [st EXCEPT !.s_data[t + 1][p + 1] = cell]

Sequencer_set_note(st, position, notenum, velocity, track) ==
  Sequencer_store(st, position, track, <<notenum, velocity>>)

Sequencer_remove_note(st, position, track) ==
  Sequencer_store(st, position, track, EmptyCell)

\* variant: shrinking the length leaves the cells past the new length in place
Sequencer_set_length_keep(st, v) ==
  LET value == Max(v, 1)
      data == IF value > st.s_length
              THEN [i \in 1..Len(st.s_data) |->
                      IF i <= st.s_tracks
                      THEN st.s_data[i] \o [j \in 1..(value - st.s_length) |-> EmptyCell]
                      ELSE st.s_data[i]]
              ELSE st.s_data
  IN [st EXCEPT !.s_data = data, !.s_length = value]

Sequencer_set_length(st, v) ==
  LET value == Max(v, 1)
      data == IF value > st.s_length
              THEN [i \in 1..Len(st.s_data) |->
                      IF i <= st.s_tracks
                      THEN st.s_data[i] \o [j \in 1..(value - st.s_length) |-> EmptyCell]
                      ELSE st.s_data[i]]
              ELSE IF value < st.s_length
              THEN [i \in 1..Len(st.s_data) |->
                      IF i <= st.s_tracks
                      THEN SubSeq(st.s_data[i], 1, Min(value, Len(st.s_data[i])))
                      ELSE st.s_data[i]]
              ELSE st.s_data
  IN [st EXCEPT !.s_data = data, !.s_length = value]

Sequencer_set_tracks(st, v) ==
  LET value == Max(v, 1)
      data == IF value > st.s_tracks
              THEN st.s_data \o [i \in 1..(value - st.s_tracks) |->
                                   [j \in 1..st.s_length |-> EmptyCell]]
              ELSE IF value < st.s_tracks
              THEN SubSeq(st.s_data, 1, Min(value, Len(st.s_data)))
              ELSE st.s_data
  IN [st EXCEPT !.s_data = data, !.s_tracks = value]

\* ------------------------------------------------------------ transitions
\* Object identity is only ever compared, so the ids are renumbered in the
\* order in which notes, sustained and voices refer to the objects.
Refs(st) ==
  [i \in 1..Len(st.notes) |-> st.notes[i].id]
    \o [i \in 1..Len(st.sustained) |-> st.sustained[i].id]
    \o [i \in 1..Len(st.voices) |-> st.voices[i].note.id]

Renumber(st, note) ==
  IF note = None THEN None
  ELSE LET refs == Refs(st)
           first(id) == CHOOSE i \in 1..Len(refs) :
                          refs[i] = id /\ \A j \in 1..(i - 1) : refs[j] # id
       IN [note EXCEPT !.id =
             Cardinality({refs[j] : j \in 1..first(note.id)} \ {0})]

\* the variables take the fields of the state record r an operation returned
Commit(r) ==
  /\ k_notes' = [i \in 1..Len(r.notes) |-> Renumber(r, r.notes[i])]
  /\ k_sustained' = [i \in 1..Len(r.sustained) |-> Renumber(r, r.sustained[i])]
  /\ k_sustain' = r.sustain
  /\ k_mode' = r.mode
  /\ max_voices' = r.max_voices
  /\ voices' = [i \in 1..Len(r.voices) |-> [r.voices[i] EXCEPT !.note = Renumber(r, @)]]
  /\ arpeggiator' = r.arpeggiator
  /\ a_active' = r.a_active
  /\ a_raw_notes' = r.a_raw_notes
  /\ a_notes' = r.a_notes
  /\ a_pos' = r.a_pos
  /\ a_mode' = r.a_mode
  /\ a_octaves' = r.a_octaves
  /\ a_probability' = r.a_probability
  /\ a_press' = r.a_press
  /\ a_release' = r.a_release
  /\ last_press' = r.last_press
  /\ s_data' = r.s_data
  /\ s_length' = r.s_length
  /\ s_tracks' = r.s_tracks
  /\ s_pos' = r.s_pos
  /\ s_active' = r.s_active
  /\ s_press' = r.s_press
  /\ s_release' = r.s_release
  /\ s_error' = r.s_error
  /\ clock' = r.clock
  /\ events' = r.events
  /\ a_step' = r.a_step
  /\ a_enabled' = r.a_enabled
  /\ s_step' = r.s_step
  /\ s_enabled' = r.s_enabled
  /\ t_bpm' = r.t_bpm
  /\ t_steps' = r.t_steps
  /\ t_gate' = r.t_gate
  /\ t_step_time' = r.t_step_time
  /\ t_gate_duration' = r.t_gate_duration
  /\ t_now' = r.t_now
  /\ t_wake' = r.t_wake
  /\ UNCHANGED kb2Vars

\* the pitches passed to the press callback, in order
Pressed(evs) ==
  LET ps == SelectSeq(evs, LAMBDA e : e.type = "press")
  IN [i \in 1..Len(ps) |-> ps[i].notenum]

\* a_trace is kept for a standalone arpeggiator with a press callback,
\* probability 1 and a mode other than RANDOM
ArpTraced(r) ==
  ~r.arpeggiator /\ r.a_press /\ r.a_probability = 10 /\ r.a_mode # RANDOM

ArpChanged(r) ==
  \/ r.a_notes # a_notes
  \/ r.a_mode # a_mode
  \/ r.a_octaves # a_octaves
  \/ r.a_probability # a_probability
  \/ r.a_press # a_press

\* history of an operation that is not a step
ArpHistory(r) ==
  /\ a_trace' = IF ArpChanged(r) THEN <<>> ELSE a_trace
  /\ a_fresh' = IF r.arpeggiator THEN FALSE
                ELSE IF a_notes = <<>> /\ r.a_notes # <<>> THEN TRUE
                ELSE IF ArpChanged(r) THEN FALSE ELSE a_fresh

\* the last n entries of a history
LastN(s, n) == SubSeq(s, Max(Len(s) - n, 0) + 1, Len(s))

\* history of a step
ArpStepHistory(r) ==
  /\ a_trace' = IF ArpTraced(r) /\ r.a_notes # <<>>
                THEN LastN(Append(a_trace, [pos |-> r.a_pos,
                                            pressed |-> Pressed(r.events)]), MaxTrace)
                ELSE a_trace
  /\ a_fresh' = a_fresh

SeqChanged(r) ==
  \/ r.s_data # s_data
  \/ r.s_length # s_length
  \/ r.s_tracks # s_tracks
  \/ r.s_press # s_press

SeqHistory(r) == s_trace' = IF SeqChanged(r) THEN <<>> ELSE s_trace

SeqStepHistory(r) ==
  s_trace' = IF r.s_press
             THEN LastN(Append(s_trace, [pos |-> r.s_pos,
                                         pressed |-> Pressed(r.events)]), MaxLength + 1)
             ELSE s_trace

\* t_count and t_slept are kept from the enabling of the arpeggiator for as
\* long as it stays active and its timing and cursor are not rewritten
TimeHistory(r) ==
  LET start == r.a_active /\ ~a_active
      stop == \/ ~r.a_active
              \/ r.t_step_time # t_step_time
              \/ r.t_gate_duration # t_gate_duration
              \/ r.t_now # t_now
  IN /\ t_count' = IF start THEN 0 ELSE IF stop THEN -1 ELSE t_count
     /\ t_slept' = IF start \/ stop THEN 0 ELSE t_slept

\* the time suspended in the sleep that ends now, if steps are being counted
Slept(woke) == IF t_count >= 1 THEN t_slept + (woke.clock - clock) ELSE t_slept

\* an operation called from outside the timer loops
Call(r) ==
  /\ Commit(r)
  /\ ArpHistory(r)
  /\ SeqHistory(r)
  /\ TimeHistory(r)
  /\ UNCHANGED <<a_pc, s_pc>>

\* ---- Keyboard operations
AppendNote(notenum, velocity) == Call(Keyboard_append(State, notenum, velocity))

RemoveNote(notenum, remove_sustained) ==
  Call(Keyboard_remove(State, notenum, remove_sustained))

\* append(p) immediately followed by remove(p)
AppendThenRemove(notenum, velocity) ==
  Call(Keyboard_remove(Keyboard_append(State, notenum, velocity), notenum, FALSE))

SetSustain(value) == Call(Keyboard_set_sustain(State, value))

SetMode(value) == Call(Keyboard_set_mode(State, value))

SetMaxVoices(value) == Call(Keyboard_set_max_voices(State, value))

\* time.monotonic() moves on
Tick ==
  /\ clock < MaxClock
  /\ Call([State EXCEPT !.clock = clock + 1])

\* ---- the arpeggiator and its Timer.update loop
ArpSetActive(value) == Call(Arpeggiator_set_active(State, value))

ArpStep ==
  /\ a_pc = "top"
  /\ a_active
  /\ Len(last_press) < MaxPending
  /\ \E skip \in BOOLEAN, r \in 0..Max(Len(a_notes) - 1, 0) :
       LET st == Arpeggiator_do_step(Arpeggiator_update(State, skip, r))
       IN /\ Commit(st)
          /\ ArpStepHistory(st)
          /\ a_pc' = IF st.last_press # <<>> THEN "gate" ELSE "rest"
  /\ SeqHistory(State)
  /\ UNCHANGED <<s_pc, t_count, t_slept>>

ArpGateEnd ==
  /\ a_pc = "gate"
  /\ Commit(Arpeggiator_do_release(State))
  /\ a_pc' = "rest"
  /\ UNCHANGED <<a_trace, a_fresh, s_trace, s_pc, t_count, t_slept>>

ArpRestEnd ==
  /\ a_pc = "rest"
  /\ Commit(State)
  /\ a_pc' = "top"
  /\ UNCHANGED <<a_trace, a_fresh, s_trace, s_pc, t_count, t_slept>>

ArpIdle ==
  /\ a_pc = "top"
  /\ ~a_active
  /\ Commit(State)
  /\ a_pc' = "idle"
  /\ UNCHANGED <<a_trace, a_fresh, s_trace, s_pc, t_count, t_slept>>

ArpWake ==
  /\ a_pc = "idle"
  /\ Commit(State)
  /\ a_pc' = "top"
  /\ UNCHANGED <<a_trace, a_fresh, s_trace, s_pc, t_count, t_slept>>

ArpLoop == ArpStep \/ ArpGateEnd \/ ArpRestEnd \/ ArpIdle \/ ArpWake

\* ---- the same loop with the lengths of its suspensions
\* Each action runs from the end of one asyncio.sleep to the next await; time
\* passes only in the sleeps (no processing overhead).
TimedStep ==
  /\ a_pc = "top"
  /\ a_active
  /\ clock < MaxTime
  /\ Len(last_press) < MaxPending
  /\ \E skip \in BOOLEAN, r \in 0..Max(Len(a_notes) - 1, 0) :
       LET st1 == Arpeggiator_do_step(Arpeggiator_update(State, skip, r))
           st == Timer_sleep(st1, IF st1.last_press # <<>>
                                  THEN st1.t_gate_duration ELSE st1.t_step_time)
       IN /\ Commit(st)
          /\ ArpStepHistory(st)
          /\ a_pc' = IF st1.last_press # <<>> THEN "gate" ELSE "rest"
  /\ t_count' = IF t_count >= 0 THEN t_count + 1 ELSE t_count
  /\ t_slept' = t_slept
  /\ SeqHistory(State)
  /\ UNCHANGED s_pc

TimedGateEnd ==
  /\ a_pc = "gate"
  /\ LET woke == Timer_wake(State)
         st1 == Arpeggiator_do_release(woke)
     IN /\ Commit(Timer_sleep(st1, st1.t_step_time - st1.t_gate_duration))
        /\ t_slept' = Slept(woke)
  /\ a_pc' = "rest"
  /\ UNCHANGED <<a_trace, a_fresh, s_trace, s_pc, t_count>>

TimedRestEnd ==
  /\ a_pc = "rest"
  /\ LET woke == Timer_wake(State)
     IN Commit(woke) /\ t_slept' = Slept(woke)
  /\ a_pc' = "top"
  /\ UNCHANGED <<a_trace, a_fresh, s_trace, s_pc, t_count>>

TimedIdle ==
  /\ a_pc = "top"
  /\ ~a_active
  /\ clock < MaxIdle
  /\ Commit(Timer_sleep(State, 10))
  /\ a_pc' = "idle"
  /\ UNCHANGED <<a_trace, a_fresh, s_trace, s_pc, t_count, t_slept>>

TimedWake ==
  /\ a_pc = "idle"
  /\ Commit(Timer_wake(State))
  /\ a_pc' = "top"
  /\ UNCHANGED <<a_trace, a_fresh, s_trace, s_pc, t_count, t_slept>>

TimerSetBpm(value) == Call(Timer_set_bpm(State, value))

TimerSetSteps(value) == Call(Timer_set_steps(State, value))

TimerSetGate(value) == Call(Timer_set_gate(State, value))

\* ---- a standalone arpeggiator driven by its owner
NotePool == {Note(0, 60, 10, 0), Note(0, 64, 8, 0), Note(0, 67, 10, 0)}

RawLists ==
  UNION {{ns \in [1..n -> NotePool] :
            \A i, j \in 1..n : i # j => ns[i].notenum # ns[j].notenum} : n \in 0..MaxRaw}

ArpAssign(value) == Call(Arpeggiator_set_notes(State, value))

ArpSetMode(value) == Call(Arpeggiator_set_mode(State, value))

ArpSetOctaves(value) == Call(Arpeggiator_set_octaves(State, value))

ArpSetProbability(value) == Call(Arpeggiator_set_probability(State, value))

ArpSetPress(value) == Call([State EXCEPT !.a_press = value])

ArpSetRelease(value) == Call([State EXCEPT !.a_release = value])

\* ---- the sequencer and its Timer.update loop
CellCount == Cardinality({c \in (1..Len(s_data)) \X (1..s_length) :
                            c[2] <= Len(s_data[c[1]]) /\ s_data[c[1]][c[2]] # EmptyCell})

SeqSetNote(position, notenum, velocity, track) ==
  /\ CellCount < MaxCells
  /\ Call(Sequencer_set_note(State, position, notenum, velocity, track))

SeqRemoveNote(position, track) == Call(Sequencer_remove_note(State, position, track))

SeqSetLength(value) == Call(Sequencer_set_length(State, value))

SeqSetTracks(value) == Call(Sequencer_set_tracks(State, value))

SeqSetPress(value) == Call([State EXCEPT !.s_press = value])

SeqSetRelease(value) == Call([State EXCEPT !.s_release = value])

SeqSetActive(value) == Call(Sequencer_set_active(State, value))

SeqStep ==
  /\ s_pc = "top"
  /\ s_active
  /\ Len(last_press) < MaxPending
  /\ LET st == Sequencer_do_step(Sequencer_update(State))
     IN /\ Commit(st)
        /\ SeqStepHistory(st)
        /\ s_pc' = IF st.last_press # <<>> THEN "gate" ELSE "rest"
  /\ UNCHANGED <<a_trace, a_fresh, a_pc, t_count, t_slept>>

SeqGateEnd ==
  /\ s_pc = "gate"
  /\ Commit(Sequencer_do_release(State))
  /\ s_pc' = "rest"
  /\ UNCHANGED <<a_trace, a_fresh, s_trace, a_pc, t_count, t_slept>>

SeqRestEnd ==
  /\ s_pc = "rest"
  /\ Commit(State)
  /\ s_pc' = "top"
  /\ UNCHANGED <<a_trace, a_fresh, s_trace, a_pc, t_count, t_slept>>

SeqIdle ==
  /\ s_pc = "top"
  /\ ~s_active
  /\ Commit(State)
  /\ s_pc' = "idle"
  /\ UNCHANGED <<a_trace, a_fresh, s_trace, a_pc, t_count, t_slept>>

SeqWake ==
  /\ s_pc = "idle"
  /\ Commit(State)
  /\ s_pc' = "top"
  /\ UNCHANGED <<a_trace, a_fresh, s_trace, a_pc, t_count, t_slept>>

\* ------------------------------------------------------- specifications
\* Arpeggiator() and Sequencer() as constructed with their defaults
InitArp ==
  /\ a_active = FALSE
  /\ a_raw_notes = <<>>
  /\ a_notes = <<>>
  /\ a_pos = 0
  /\ a_mode = UP
  /\ a_octaves = 0
  /\ a_probability = 10
  /\ a_pc = "top"
  /\ a_trace = <<>>
  /\ a_fresh = FALSE
  /\ t_bpm = 120
  /\ t_steps = 8
  /\ t_gate = 5
  /\ t_step_time = 250
  /\ t_gate_duration = 125
  /\ t_now = 0
  /\ t_wake = 0
  /\ t_count = -1
  /\ t_slept = 0

InitSeq(length, tracks) ==
  /\ s_length = Max(length, 1)
  /\ s_tracks = Max(tracks, 1)
  /\ s_data = [i \in 1..Max(tracks, 1) |-> [j \in 1..Max(length, 1) |-> EmptyCell]]
  /\ s_pos = 0
  /\ s_active = FALSE
  /\ s_pc = "top"
  /\ s_error = FALSE
  /\ s_trace = <<>>

\* Keyboard(max_voices=mv, mode=mode), with or without an arpeggiator assigned;
\* cb: the standalone timers have their press and release callbacks registered
InitKb(mv, mode, arp, cb) ==
  /\ k_notes = <<>>
  /\ k_sustained = <<>>
  /\ k_sustain = FALSE
  /\ k_mode = mode % 3
  /\ max_voices = Max(mv, 1)
  /\ voices = [i \in 1..Max(mv, 1) |-> Voice(i - 1, 0)]
  /\ arpeggiator = arp
  /\ a_press = (arp \/ cb)
  /\ a_release = (arp \/ cb)
  /\ s_press = cb
  /\ s_release = cb
  /\ a_step = cb
  /\ a_enabled = cb
  /\ s_step = cb
  /\ s_enabled = cb
  /\ last_press = <<>>
  /\ clock = 0
  /\ events = <<>>
  /\ cls_notes = <<>>
  /\ k_own = FALSE
  /\ k2_own = FALSE
  /\ k2_notes = <<>>
  /\ k2_sustained = <<>>
  /\ k2_sustain = FALSE
  /\ k2_voices = <<>>

\* a Keyboard(max_voices=mv, mode=mode) without an arpeggiator
Init ==
  /\ \E mv \in 1..MaxVoices, mode \in {HIGH, LOW, LAST} : InitKb(mv, mode, FALSE, FALSE)
  /\ InitArp
  /\ InitSeq(1, 1)

Next ==
  \/ \E p \in Pitches, v \in Velocities : AppendNote(p, v)
  \/ \E p \in Pitches, rs \in BOOLEAN : RemoveNote(p, rs)
  \/ \E p \in Pitches, v \in Velocities : AppendThenRemove(p, v)
  \/ \E b \in BOOLEAN : SetSustain(b)
  \/ \E m \in {HIGH, LOW, LAST} : SetMode(m)
  \/ \E n \in 0..MaxVoices : SetMaxVoices(n)
  \/ Tick

Spec == Init /\ [][Next]_vars

\* a Keyboard(max_voices=mv) with an arpeggiator assigned, and the arpeggiator's loop
InitKbArp ==
  /\ \E mv \in 1..MaxVoices : InitKb(mv, HIGH, TRUE, FALSE)
  /\ InitArp
  /\ InitSeq(1, 1)

NextKbArp ==
  \/ \E p \in Pitches, v \in Velocities : AppendNote(p, v)
  \/ \E p \in Pitches, rs \in BOOLEAN : RemoveNote(p, rs)
  \/ \E b \in BOOLEAN : SetSustain(b)
  \/ \E n \in 0..MaxVoices : SetMaxVoices(n)
  \/ \E b \in BOOLEAN : ArpSetActive(b)
  \/ ArpStep
  \/ ArpGateEnd
  \/ ArpRestEnd
  \/ ArpIdle
  \/ ArpWake

SpecKbArp == InitKbArp /\ [][NextKbArp]_vars

\* a Keyboard(max_voices=1) with an arpeggiator assigned, on which one pitch is
\* played, and the arpeggiator's loop, scheduled again and again
InitKbArpFair == InitKb(1, HIGH, TRUE, FALSE) /\ InitArp /\ InitSeq(1, 1)

NextKbArpFair ==
  \/ \E v \in Velocities : AppendNote(60, v)
  \/ RemoveNote(60, FALSE)
  \/ \E b \in BOOLEAN : ArpSetActive(b)
  \/ ArpStep
  \/ ArpGateEnd
  \/ ArpRestEnd
  \/ ArpIdle
  \/ ArpWake

\* the coroutine of Timer.update is resumed: its position changes. Only the
\* actions of the loop change a_pc and at every position one of them can be
\* taken, so weak fairness of this action is weak fairness of the loop
ArpResumed == a_pc' \in {"top", "gate", "rest", "idle"} /\ a_pc' # a_pc

SpecKbArpFair == InitKbArpFair /\ [][NextKbArpFair]_vars /\ WF_a_pc(ArpResumed)

\* a standalone Arpeggiator with press and release callbacks registered
InitArpOnly == InitKb(1, HIGH, FALSE, TRUE) /\ InitArp /\ InitSeq(1, 1)

NextArp ==
  \/ \E ns \in RawLists : ArpAssign(ns)
  \/ \E m \in UP..RANDOM : ArpSetMode(m)
  \/ \E q \in Probabilities : ArpSetProbability(q)
  \/ \E b \in BOOLEAN : ArpSetActive(b)
  \/ ArpStep
  \/ ArpGateEnd
  \/ ArpRestEnd
  \/ ArpIdle
  \/ ArpWake

SpecArp == InitArpOnly /\ [][NextArp]_vars

\* the note set, mode and octaves of a standalone Arpeggiator
NextArpNotes ==
  \/ \E ns \in RawLists : ArpAssign(ns)
  \/ \E m \in UP..RANDOM : ArpSetMode(m)
  \/ \E k \in (-MaxOctaves)..MaxOctaves : ArpSetOctaves(k)

SpecArpNotes == InitArpOnly /\ [][NextArpNotes]_vars

\* a standalone Arpeggiator and the pacing of its loop; the gate is set
\* while the timer is stopped
TimerNotes == {<<>>, <<Note(0, 60, 10, 0)>>}

NextTimer ==
  \/ \E ns \in TimerNotes : ArpAssign(ns)
  \/ ~a_active /\ \E g \in {0, 5, 10} : TimerSetGate(g)
  \/ \E b \in BOOLEAN : ArpSetActive(b)
  \/ TimedStep
  \/ TimedGateEnd
  \/ TimedRestEnd
  \/ TimedIdle
  \/ TimedWake

SpecTimer == InitArpOnly /\ [][NextTimer]_vars

\* a standalone Arpeggiator whose press and release callbacks are set and unset
NextArpCallbacks ==
  \/ \E ns \in TimerNotes : ArpAssign(ns)
  \/ \E b \in BOOLEAN : ArpSetPress(b)
  \/ \E b \in BOOLEAN : ArpSetRelease(b)
  \/ \E b \in BOOLEAN : ArpSetActive(b)
  \/ ArpStep
  \/ ArpGateEnd
  \/ ArpRestEnd
  \/ ArpIdle
  \/ ArpWake

SpecArpCallbacks == InitArpOnly /\ [][NextArpCallbacks]_vars

SeqCells == {<<60, 10>>, <<62, 8>>, <<0, 10>>, <<60, 0>>}

\* values handed to the numeric setters, inside and outside their ranges
Tempos == {-1, 0, 60, 120}

Divisions == {-1, 0, 8, 16}

Ratios == {-1, 5, 11}

\* the numeric setters of a Timer, an Arpeggiator, a Keyboard and a Sequencer
NextSetters ==
  \/ \E v \in Tempos : TimerSetBpm(v)
  \/ \E v \in Divisions : TimerSetSteps(v)
  \/ \E v \in Ratios : TimerSetGate(v)
  \/ \E v \in Ratios : ArpSetProbability(v)
  \/ \E n \in (-1)..MaxVoices : SetMaxVoices(n)
  \/ \E n \in (-1)..MaxLength : SeqSetLength(n)
  \/ \E n \in (-1)..MaxTracks : SeqSetTracks(n)

SpecSetters == InitArpOnly /\ [][NextSetters]_vars

\* a Sequencer(length=1, tracks=1), resized and edited while stopped
InitSeqGrid == InitKb(1, HIGH, FALSE, TRUE) /\ InitArp /\ InitSeq(1, 1)

NextSeqGrid ==
  \/ \E p \in (-1)..MaxLength, t \in (-1)..MaxTracks, c \in SeqCells :
       SeqSetNote(p, c[1], c[2], t)
  \/ \E p \in (-1)..MaxLength, t \in (-1)..MaxTracks : SeqRemoveNote(p, t)
  \/ \E n \in 0..MaxLength : SeqSetLength(n)
  \/ \E n \in 0..MaxTracks : SeqSetTracks(n)

SpecSeqGrid == InitSeqGrid /\ [][NextSeqGrid]_vars

\* a standalone Sequencer(length, tracks) with press and release callbacks registered
InitSeqOnly ==
  /\ InitKb(1, HIGH, FALSE, TRUE)
  /\ InitArp
  /\ \E length \in 1..MaxLength, tracks \in 1..MaxTracks : InitSeq(length, tracks)

NextSeq ==
  \/ \E p \in (-1)..MaxLength, t \in (-1)..MaxTracks, c \in SeqCells :
       SeqSetNote(p, c[1], c[2], t)
  \/ \E p \in (-1)..MaxLength, t \in (-1)..MaxTracks : SeqRemoveNote(p, t)
  \/ \E b \in BOOLEAN : SeqSetActive(b)
  \/ SeqStep
  \/ SeqGateEnd
  \/ SeqRestEnd
  \/ SeqIdle
  \/ SeqWake

SpecSeq == InitSeqOnly /\ [][NextSeq]_vars

\* a standalone Arpeggiator and a standalone Sequencer of one step, both with
\* press and release callbacks, whose loops run side by side
NextTwoTimers ==
  \/ \E ns \in TimerNotes : ArpAssign(ns)
  \/ SeqSetNote(0, 62, 8, 0)
  \/ \E b \in BOOLEAN : ArpSetActive(b)
  \/ \E b \in BOOLEAN : SeqSetActive(b)
  \/ ArpStep
  \/ ArpGateEnd
  \/ ArpRestEnd
  \/ ArpIdle
  \/ ArpWake
  \/ SeqStep
  \/ SeqGateEnd
  \/ SeqRestEnd
  \/ SeqIdle
  \/ SeqWake

SpecTwoTimers == InitArpOnly /\ [][NextTwoTimers]_vars

StepLists ==
  {<<>>, <<Note(0, 60, 10, 0)>>, <<Note(0, 64, 8, 0), Note(0, 60, 10, 0)>>}

\* a standalone Arpeggiator with press and release callbacks registered, whose
\* loop is scheduled again and again
NextArpFair ==
  \/ \E ns \in StepLists : ArpAssign(ns)
  \/ \E b \in BOOLEAN : ArpSetActive(b)
  \/ ArpStep
  \/ ArpGateEnd
  \/ ArpRestEnd
  \/ ArpIdle
  \/ ArpWake

SpecArpFair == InitArpOnly /\ [][NextArpFair]_vars /\ WF_a_pc(ArpResumed)

\* a standalone Arpeggiator whose notes, mode and octaves are changed between
\* the steps of its loop
NextArpSteps ==
  \/ \E ns \in StepLists : ArpAssign(ns)
  \/ \E m \in UP..RANDOM : ArpSetMode(m)
  \/ \E k \in (-MaxOctaves)..MaxOctaves : ArpSetOctaves(k)
  \/ \E b \in BOOLEAN : ArpSetActive(b)
  \/ ArpStep
  \/ ArpGateEnd
  \/ ArpRestEnd
  \/ ArpIdle
  \/ ArpWake

SpecArpSteps == InitArpOnly /\ [][NextArpSteps]_vars

\* a standalone Sequencer whose length is changed while its loop runs
NextSeqResize ==
  \/ \E p \in 0..(MaxLength - 1) : SeqSetNote(p, 62, 8, 0)
  \/ \E n \in 0..MaxLength : SeqSetLength(n)
  \/ \E b \in BOOLEAN : SeqSetActive(b)
  \/ SeqStep
  \/ SeqGateEnd
  \/ SeqRestEnd
  \/ SeqIdle
  \/ SeqWake

SpecSeqResize == InitSeqOnly /\ [][NextSeqResize]_vars

\* ---- two Keyboards of the one class
\* the second Keyboard object exists
Constructed == k2_voices # <<>>

\* the program state with the fields of Keyboard kb (1 or 2) as the Keyboard
KeyboardView(kb) ==
  IF kb = 1 THEN State
  ELSE [State EXCEPT !.notes = k2_notes, !.sustained = k2_sustained,
                     !.sustain = k2_sustain, !.voices = k2_voices]

\* whether self._notes of Keyboard kb resolves to an instance attribute
OwnNotes(kb) == IF kb = 1 THEN k_own ELSE k2_own

\* ids of the Note objects either Keyboard or the class attribute refers to
LiveIds ==
  UsedIds(KeyboardView(1)) \cup UsedIds(KeyboardView(2))
    \cup {cls_notes[i].id : i \in 1..Len(cls_notes)}

\* a Note object created now is distinct from every object of both Keyboards
NewId == CHOOSE id \in 1..(Cardinality(LiveIds) + 1) :
           /\ id \notin LiveIds
           /\ \A j \in 1..(id - 1) : j \in LiveIds

\* the object that has identity f in the record r gets identity g
Relabel(r, f, g) ==
  LET as(n) == IF n.id = f THEN [n EXCEPT !.id = g] ELSE n
  IN [r EXCEPT !.notes = [i \in 1..Len(r.notes) |-> as(r.notes[i])],
               !.sustained = [i \in 1..Len(r.sustained) |-> as(r.sustained[i])],
               !.voices = [i \in 1..Len(r.voices) |->
                             [r.voices[i] EXCEPT !.note = as(@)]]]

\* the lists and voices of both Keyboards and of the class, side by side
World(kb, r, cls) ==
  [n1 |-> IF kb = 1 THEN r.notes ELSE IF k_own THEN k_notes ELSE cls,
   s1 |-> IF kb = 1 THEN r.sustained ELSE k_sustained,
   v1 |-> IF kb = 1 THEN r.voices ELSE voices,
   n2 |-> IF kb = 2 THEN r.notes
          ELSE IF Constructed /\ ~k2_own THEN cls ELSE k2_notes,
   s2 |-> IF kb = 2 THEN r.sustained ELSE k2_sustained,
   v2 |-> IF kb = 2 THEN r.voices ELSE k2_voices,
   c |-> cls]

Ids(ns) == [i \in 1..Len(ns) |-> ns[i].id]

WorldRefs(w) ==
  Ids(w.n1) \o Ids(w.s1) \o [i \in 1..Len(w.v1) |-> w.v1[i].note.id]
    \o Ids(w.n2) \o Ids(w.s2) \o [i \in 1..Len(w.v2) |-> w.v2[i].note.id]
    \o Ids(w.c)

\* objects are numbered in the order in which the world first refers to them
Numbered(w, note) ==
  IF note = None THEN None
  ELSE LET refs == WorldRefs(w)
           first == CHOOSE i \in 1..Len(refs) :
                      refs[i] = note.id /\ \A j \in 1..(i - 1) : refs[j] # note.id
       IN [note EXCEPT !.id = Cardinality({refs[j] : j \in 1..first} \ {0})]

NumberedList(w, ns) == [i \in 1..Len(ns) |-> Numbered(w, ns[i])]

NumberedVoices(w, vs) ==
  [i \in 1..Len(vs) |-> [vs[i] EXCEPT !.note = Numbered(w, @)]]

\* attribute lookup and assignment on the instance: Keyboard kb takes the
\* fields of r, own tells whether it now has an instance attribute _notes and
\* cls is the list of the class attribute; a Keyboard without an instance
\* attribute reads the class attribute
StoreKeyboard(kb, r, own, cls) ==
  LET w == World(kb, r, cls)
  IN /\ cls_notes' = NumberedList(w, w.c)
     /\ k_own' = IF kb = 1 THEN own ELSE k_own
     /\ k2_own' = IF kb = 2 THEN own ELSE k2_own
     /\ k_notes' = NumberedList(w, w.n1)
     /\ k2_notes' = NumberedList(w, w.n2)
     /\ k_sustained' = NumberedList(w, w.s1)
     /\ k2_sustained' = NumberedList(w, w.s2)
     /\ k_sustain' = IF kb = 1 THEN r.sustain ELSE k_sustain
     /\ k2_sustain' = IF kb = 2 THEN r.sustain ELSE k2_sustain
     /\ voices' = NumberedVoices(w, w.v1)
     /\ k2_voices' = NumberedVoices(w, w.v2)
     /\ events' = r.events
     /\ UNCHANGED <<k_mode, max_voices, arpeggiator, last_press, clock, arpVars,
                    seqVars, a_step, a_enabled, s_step, s_enabled, t_bpm,
                    t_steps, t_gate, t_step_time, t_gate_duration, t_now,
                    t_wake, t_count, t_slept>>

Held(st, notenum) ==
  \E i \in 1..Len(all_notes(st)) : Note_eq(all_notes(st)[i], notenum)

\* Keyboard.append on Keyboard kb: remove assigns self._notes when the pitch
\* is held, self._notes.append(note) changes the list it resolves to in place
AppendOn(kb, notenum, velocity) ==
  /\ kb = 2 => Constructed
  /\ LET st == KeyboardView(kb)
         own == OwnNotes(kb) \/ Held(st, notenum)
         r == Relabel(Keyboard_append(st, notenum, velocity),
                      FreshId(Keyboard_remove(st, notenum, TRUE)), NewId)
     IN StoreKeyboard(kb, r, own, IF own THEN cls_notes ELSE r.notes)

\* Keyboard.remove on Keyboard kb: self._notes = [...] when the pitch is held
RemoveOn(kb, notenum, remove_sustained) ==
  /\ kb = 2 => Constructed
  /\ LET st == KeyboardView(kb)
     IN StoreKeyboard(kb, Keyboard_remove(st, notenum, remove_sustained),
                      OwnNotes(kb) \/ Held(st, notenum), cls_notes)

\* Keyboard.sustain setter on Keyboard kb
SustainOn(kb, value) ==
  /\ kb = 2 => Constructed
  /\ StoreKeyboard(kb, Keyboard_set_sustain(KeyboardView(kb), value),
                   OwnNotes(kb), cls_notes)

\* Keyboard(max_voices=max_voices), bound to the name of the second Keyboard:
\* __init__ assigns _voices and no other list
Construct ==
  StoreKeyboard(2, [State EXCEPT !.notes = cls_notes, !.sustained = <<>>,
                                 !.sustain = FALSE,
                                 !.voices = [i \in 1..max_voices |->
                                               Voice(i - 1, clock)]],
                FALSE, cls_notes)

\* the first Keyboard(max_voices=1) is constructed, the second is not yet
InitTwoKeyboards == InitKb(1, HIGH, FALSE, FALSE) /\ InitArp /\ InitSeq(1, 1)

NextTwoKeyboards ==
  \/ \E kb \in 1..2, p \in Pitches, v \in Velocities : AppendOn(kb, p, v)
  \/ \E kb \in 1..2, p \in Pitches, rs \in BOOLEAN : RemoveOn(kb, p, rs)
  \/ \E kb \in 1..2, b \in BOOLEAN : SustainOn(kb, b)
  \/ Construct

SpecTwoKeyboards == InitTwoKeyboards /\ [][NextTwoKeyboards]_vars

\* ----------------------------------------------------------------- claims
Notenums(ns) == [i \in 1..Len(ns) |-> ns[i].notenum]

ActiveVoices == {i \in 1..Len(voices) : Voice_active(voices[i])}

HeldPitches == {all_notes(State)[i].notenum : i \in 1..Len(all_notes(State))}

\* C1: the live note list never holds two Notes of the same pitch
C1_LiveNotesDistinct ==
  \A i, j \in 1..Len(k_notes) : i # j => k_notes[i].notenum # k_notes[j].notenum

\* C1 witness: two live notes, sustained, while the arpeggiator runs
C1_Witness ==
  /\ Len(k_notes) = 2
  /\ k_sustain
  /\ a_active
  /\ Len(a_notes) > 2

\* C2: in LAST mode the selection view holds the max_voices notes that were
\* created last (the live list is in creation order; the notes were created
\* at different times)
C2_LastSelectsLatest ==
  (/\ k_mode = LAST
   /\ ~k_sustain
   /\ \A i, j \in 1..Len(k_notes) : i < j => k_notes[i].timestamp < k_notes[j].timestamp) =>
    {Keyboard_notes(State)[i].notenum : i \in 1..Len(Keyboard_notes(State))}
      = {k_notes[i].notenum :
           i \in (Max(Len(k_notes) - max_voices, 0) + 1)..Len(k_notes)}

\* the n highest of the pitches ps, descending
RECURSIVE Highest(_, _)
Highest(ps, n) ==
  IF n = 0 \/ ps = {} THEN <<>>
  ELSE LET top == CHOOSE p \in ps : \A q \in ps : q <= p
       IN <<top>> \o Highest(ps \ {top}, n - 1)

\* the n lowest of the pitches ps, ascending
RECURSIVE Lowest(_, _)
Lowest(ps, n) ==
  IF n = 0 \/ ps = {} THEN <<>>
  ELSE LET bottom == CHOOSE p \in ps : \A q \in ps : p <= q
       IN <<bottom>> \o Lowest(ps \ {bottom}, n - 1)

\* C3: the selection view is the max_voices highest held pitches, descending,
\* in HIGH mode and the max_voices lowest, ascending, in LOW mode
C3_HighLowSelection ==
  /\ k_mode = HIGH => Notenums(Keyboard_notes(State)) = Highest(HeldPitches, max_voices)
  /\ k_mode = LOW => Notenums(Keyboard_notes(State)) = Lowest(HeldPitches, max_voices)

\* what each voice holds, by voice position
Allocation == [i \in 1..Len(voices) |->
                 <<voices[i].note.notenum, voices[i].note.velocity,
                   voices[i].note.timestamp>>]

\* the active voices hold exactly the notes of the selection view
VoicesHoldSelection ==
  {voices[i].note.id : i \in ActiveVoices}
    = {Keyboard_notes(State)[i].id : i \in 1..Len(Keyboard_notes(State))}

\* C4 as stated: append(p) immediately followed by remove(p) leaves every
\* voice holding what it held before
C4_AppendRemoveRestores ==
  [][\A p \in Pitches, v \in Velocities :
       AppendThenRemove(p, v) => Allocation' = Allocation]_vars

\* C4 amended: with sustain off and p not held, append(p) immediately
\* followed by remove(p) leaves the live list as it was and the active voices
\* holding exactly the selection view; when they held the selection view
\* before the append, every voice holds what it held before
C4_AppendRemoveRestoresUnheld ==
  [][\A p \in Pitches, v \in Velocities :
       (/\ ~k_sustain
        /\ p \notin HeldPitches
        /\ AppendThenRemove(p, v))
         => /\ k_notes' = k_notes
            /\ VoicesHoldSelection'
            /\ VoicesHoldSelection => Allocation' = Allocation]_vars

\* C4 witness: p was pressed and released again by one append/remove pair
\* that first took a voice from a held note and then gave it back
C4_Witness ==
  /\ ~k_sustain
  /\ Len(events) = 4
  /\ events[1].type = "voice_release"
  /\ events[2].type = "voice_press"
  /\ events[3].type = "voice_release"
  /\ events[4].type = "voice_press"
  /\ events[2].notenum = events[3].notenum
  /\ events[1].notenum = events[4].notenum
  /\ events[1].notenum # events[2].notenum

\* C5: with sustain on, remove(p) without remove_sustained of a pitch in the
\* sustain snapshot fires no voice_release for a voice holding p
C5_SustainedNotReleased ==
  [][\A p \in Pitches :
       (/\ k_sustain
        /\ \E i \in 1..Len(k_sustained) : k_sustained[i].notenum = p
        /\ RemoveNote(p, FALSE))
         => \A e \in 1..Len(events') :
              ~(events'[e].type = "voice_release" /\ events'[e].notenum = p)]_vars

\* C6: at most max_voices voices are active and the selection view has at
\* most max_voices entries
C6_VoicesBounded ==
  /\ Cardinality(ActiveVoices) <= max_voices
  /\ Len(Keyboard_notes(State)) <= max_voices

\* C6 witness: more notes held than voices, every voice active, after the
\* arpeggiator has been stopped
C6_Witness ==
  /\ Len(all_notes(State)) > max_voices
  /\ Cardinality(ActiveVoices) = max_voices
  /\ max_voices = MaxVoices
  /\ ~a_active
  /\ a_notes # <<>>

\* C7: the first step after a note set was assigned to an arpeggiator that
\* held none presses the first element of the derived sequence
C7_FirstStepPressesFirst ==
  (a_fresh /\ Len(a_trace) >= 1 /\ Len(a_trace) < MaxTrace) =>
    a_trace[1].pressed = <<a_notes[1].notenum>>

\* the length of the derived sequence for n notes and no octave copies
Period(n, mode) == IF mode \in {UPDOWN, DOWNUP} /\ n > 2 THEN 2 * n - 2 ELSE n

\* C8: with probability 1, a press callback and an unchanged note set in a
\* mode other than RANDOM, every step presses exactly one note, consecutive
\* steps press consecutive elements of the derived sequence cyclically, and
\* the sequence has period n (2n - 2 in UPDOWN and DOWNUP with n > 2)
C8_StepsCycle ==
  /\ a_trace # <<>> => Len(a_notes) = Period(Len(a_raw_notes), a_mode)
  /\ \A i \in 1..Len(a_trace) :
       /\ a_trace[i].pressed = <<a_notes[a_trace[i].pos + 1].notenum>>
       /\ i > 1 => a_trace[i].pos = (a_trace[i - 1].pos + 1) % Len(a_notes)
       /\ i > Len(a_notes) => a_trace[i].pressed = a_trace[i - Len(a_notes)].pressed

\* C8 witness: {60,64,67} in UPDOWN mode, five steps 64 67 64 60 64
C8_Witness ==
  /\ a_mode = UPDOWN
  /\ Len(a_trace) = 5
  /\ [i \in 1..5 |-> a_trace[i].pressed] = <<<<64>>, <<67>>, <<64>>, <<60>>, <<64>>>>

\* the notes and their octave copies, in the order the copies are made
Transposed(raw, k) ==
  [i \in 1..(Len(raw) * (Abs(k) + 1)) |->
     [notenum |-> raw[((i - 1) % Len(raw)) + 1].notenum
                    + ((i - 1) \div Len(raw)) * 12 * (IF k < 0 THEN -1 ELSE 1),
      velocity |-> raw[((i - 1) % Len(raw)) + 1].velocity]]

Count(s, x) == Cardinality({i \in 1..Len(s) : s[i] = x})

SameBag(s, t) ==
  /\ Len(s) = Len(t)
  /\ \A i \in 1..Len(s) : Count(s, s[i]) = Count(t, s[i])

\* C9: before ordering, the playback set is the original notes plus, for
\* each j in 1..|octaves|, a copy of every note transposed by 12 j in the
\* direction of the sign of octaves, with the same velocity
C9_OctaveCopies ==
  a_raw_notes # <<>> =>
    LET want == Transposed(a_raw_notes, a_octaves)
    IN /\ Len(a_notes) >= Len(want)
       /\ SameBag(SubSeq(a_notes, 1, Len(want)), want)
       /\ a_mode \in {PLAYED, RANDOM} => a_notes = want

\* C9 witness: octaves = 1 on {60,64} gives 60 64 72 76; and a downward copy
C9_Witness ==
  /\ a_octaves = 1
  /\ a_mode = PLAYED
  /\ Notenums(a_notes) = <<60, 64, 72, 76>>

\* the pitches of the cells at position pos that are not rests, by track
CellsToPress(pos) ==
  LET cells == [t \in 1..s_tracks |-> s_data[t][pos + 1]]
      notes == SelectSeq(cells, LAMBDA c : c # EmptyCell /\ c[1] > 0 /\ c[2] > 0)
  IN [i \in 1..Len(notes) |-> notes[i][1]]

\* C10: any length consecutive steps visit each position once, and a step
\* presses exactly the cells at its position with pitch > 0 and velocity > 0
C10_SequencerSteps ==
  /\ \A i \in 1..Len(s_trace) :
       /\ s_trace[i].pos \in 0..(s_length - 1)
       /\ s_trace[i].pressed = CellsToPress(s_trace[i].pos)
  /\ \A i \in 1..Len(s_trace) :
       i + s_length - 1 <= Len(s_trace) =>
         {s_trace[j].pos : j \in i..(i + s_length - 1)} = 0..(s_length - 1)

\* C10 witness: a full round of a two-track grid with a note and a rest
C10_Witness ==
  /\ s_length = MaxLength
  /\ s_tracks = 2
  /\ Len(s_trace) = MaxLength + 1
  /\ \E i \in 1..Len(s_trace) : s_trace[i].pressed # <<>>
  /\ \E t \in 1..s_tracks, p \in 1..s_length :
       s_data[t][p] # EmptyCell /\ s_data[t][p][2] = 0

\* the step callback ran exactly once, after every press callback
StepOnceAfterPresses(evs) ==
  /\ Cardinality({i \in 1..Len(evs) : evs[i].type = "step"}) = 1
  /\ \A i, j \in 1..Len(evs) :
       (evs[i].type = "step" /\ evs[j].type = "press") => j < i
  /\ \A i \in 1..Len(evs) : evs[i].type # "release"

\* C11: a step of an active timer with a step callback registered invokes the
\* callback exactly once, after the presses of the step and before any
\* release, whether or not a note was pressed (here: the Arpeggiator)
C11_StepCallbackOnce ==
  [][(a_step /\ ArpStep) => StepOnceAfterPresses(events')]_vars

\* release callbacks for the pitches ps, in order
Releases(ps, timer) ==
  [i \in 1..Len(ps) |->
     [type |-> "release", timer |-> timer, notenum |-> ps[i], velocity |-> 0]]

\* C12: disabling an active timer while pitches are open fires release for
\* each of them, then enabled(false), and leaves no pitch pending
C12_DisableReleasesFirst ==
  [][(/\ s_active
      /\ s_release
      /\ last_press # <<>>
      /\ SeqSetActive(FALSE))
       => /\ events' = Releases(last_press, "sequencer")
                         \o (IF s_enabled
                             THEN <<[type |-> "enabled", timer |-> "sequencer",
                                     active |-> FALSE]>>
                             ELSE <<>>)
          /\ last_press' = <<>>
          /\ ~s_active']_vars

\* C12 witness: a sequencer was disabled with two pitches open
C12_Witness ==
  /\ ~s_active
  /\ last_press = <<>>
  /\ Len(events) = 3
  /\ events[1].type = "release"
  /\ events[2].type = "release"
  /\ events[3] = [type |-> "enabled", timer |-> "sequencer", active |-> FALSE]

\* C13: when a step and its suspensions are over, the time suspended since
\* the first step after enable is the number of steps times step_time
C13_SuspensionsSumToSteps ==
  (a_pc = "top" /\ a_active /\ t_count >= 1) => t_slept = t_count * t_step_time

\* an index argument brought into [0, n)
ClampInto(value, n) == Min(Max(value, 0), n - 1)

\* C14: set_note with any position and track completes without an error and
\* writes the cell whose indices are the arguments clamped into [0, length)
\* and [0, tracks)
C14_SetNoteClamps ==
  [][\A p \in (-1)..MaxLength, t \in (-1)..MaxTracks, c \in SeqCells :
       SeqSetNote(p, c[1], c[2], t)
         => /\ ~s_error'
            /\ s_data'[ClampInto(t, s_tracks) + 1][ClampInto(p, s_length) + 1] = c]_vars

\* the grid has exactly tracks rows of exactly length cells
GridShape ==
  /\ Len(s_data) = s_tracks
  /\ \A t \in 1..Len(s_data) : Len(s_data[t]) = s_length

\* the cells inside both the old and the new grid are unchanged, the cells
\* outside the old grid are empty
ResizeFrame ==
  /\ \A t \in 1..Min(s_tracks, s_tracks'), p \in 1..Min(s_length, s_length') :
       s_data'[t][p] = s_data[t][p]
  /\ \A t \in 1..s_tracks', p \in 1..s_length' :
       (t > s_tracks \/ p > s_length) => s_data'[t][p] = EmptyCell

\* C15: setting length or tracks (clamped to >= 1) keeps the cells inside
\* both grids, makes the cells added by growth empty, and after any resize,
\* set_note or remove_note the grid is tracks rows of length cells
C15_ResizeKeepsCells ==
  [][/\ GridShape'
     /\ \A n \in 0..MaxLength :
          SeqSetLength(n)
            => s_length' = Max(n, 1) /\ s_tracks' = s_tracks /\ ResizeFrame
     /\ \A n \in 0..MaxTracks :
          SeqSetTracks(n)
            => s_tracks' = Max(n, 1) /\ s_length' = s_length /\ ResizeFrame]_vars

\* C15 witness: a 1 x 1 grid grown to the full size around its one note
C15_Witness ==
  /\ s_length = MaxLength
  /\ s_tracks = MaxTracks
  /\ s_data[1][1] = <<60, 10>>
  /\ \A t \in 1..s_tracks, p \in 1..s_length :
       (t > 1 \/ p > 1) => s_data[t][p] = EmptyCell

\* C16: setting max_voices to n leaves exactly max(n, 1) voices with indices
\* 0..max(n, 1) - 1 and afterwards the active voices hold the current
\* selection view, so held notes that still fit keep sounding
C16_MaxVoicesReallocates ==
  [][\A n \in 0..MaxVoices :
       SetMaxVoices(n)
         => /\ Len(voices') = Max(n, 1)
            /\ \A i \in 1..Len(voices') : voices'[i].index = i - 1
            /\ VoicesHoldSelection']_vars

\* C17: after any sequence of numeric setter calls bpm >= 1, steps >= 0.25
\* (one quarter), 0 <= gate <= 1, 0 <= probability <= 1 (tenths),
\* max_voices >= 1, length >= 1 and tracks >= 1, no setter has raised an
\* error, and 0 <= gate_duration <= step_time
C17_SettersClamp ==
  /\ t_bpm >= 1
  /\ t_steps >= 1
  /\ 0 <= t_gate /\ t_gate <= 10
  /\ 0 <= a_probability /\ a_probability <= 10
  /\ max_voices >= 1 /\ Len(voices) = max_voices
  /\ s_length >= 1
  /\ s_tracks >= 1
  /\ ~s_error
  /\ \A i \in 1..Len(events) : events[i].type # "error"
  /\ 0 <= t_gate_duration /\ t_gate_duration <= t_step_time
  /\ t_step_time = 240000 \div (t_bpm * t_steps)

\* C17 witness: bpm, steps, gate and probability all sit on a limit that only
\* an out-of-range assignment reaches
C17_Witness ==
  /\ t_bpm = 1
  /\ t_steps = 1
  /\ t_gate = 10
  /\ a_probability = 0
  /\ t_gate_duration = t_step_time

\* the events of the last operation that concern the voice of this index
LaterFor(evs, e) == {f \in (e + 1)..Len(evs) : evs[f].index = evs[e].index}

EarlierFor(evs, e) == {f \in 1..(e - 1) : evs[f].index = evs[e].index}

\* C18: a voice_press callback sees the voice holding the newly assigned
\* note, a voice_release callback sees the voice still holding the note it
\* held before the operation, and that note is cleared only afterwards
C18_CallbackSeesNote ==
  [][\A e \in 1..Len(events') :
       LET ev == events'[e]
           i == ev.index + 1
       IN /\ ev.type = "voice_press"
               => /\ ev.active
                  /\ (LaterFor(events', e) = {} /\ i <= Len(voices'))
                       => /\ Voice_active(voices'[i])
                          /\ voices'[i].note.notenum = ev.notenum
          /\ ev.type = "voice_release"
               => /\ ev.active
                  /\ (EarlierFor(events', e) = {} /\ i <= Len(voices))
                       => /\ Voice_active(voices[i])
                          /\ voices[i].note.notenum = ev.notenum
                  /\ (LaterFor(events', e) = {} /\ i <= Len(voices'))
                       => ~Voice_active(voices'[i])]_vars

\* C18 witness: one operation released a voice and pressed it again with
\* another note
C18_Witness ==
  \E e \in 1..Len(events) :
    /\ events[e].type = "voice_release"
    /\ \E f \in LaterFor(events, e) :
         /\ events[f].type = "voice_press"
         /\ events[f].notenum # events[e].notenum
         /\ voices[events[f].index + 1].note.notenum = events[f].notenum

\* the voice_release events among evs
ReleaseEvents(evs) == {e \in 1..Len(evs) : evs[e].type = "voice_release"}

\* C19: remove(p) of a pitch in neither the live nor the sustained list
\* changes no list, no voice and nothing of the attached arpeggiator and
\* fires no callback; releasing the voices of a max_voices assignment fires
\* voice_release for the active voices only, once each
C19_RemoveAbsentNoOp ==
  [][/\ \A p \in Pitches, rs \in BOOLEAN :
          p \notin HeldPitches
            => \/ /\ k_notes' = k_notes
                  /\ k_sustained' = k_sustained
                  /\ voices' = voices
                  /\ a_raw_notes' = a_raw_notes
                  /\ a_notes' = a_notes
                  /\ a_pos' = a_pos
                  /\ t_now' = t_now
                  /\ last_press' = last_press
                  /\ events' = <<>>
               \/ ~RemoveNote(p, rs)
     /\ \A n \in 0..MaxVoices :
          \/ /\ \A e \in ReleaseEvents(events') :
                  /\ events'[e].index < Len(voices)
                  /\ Voice_active(voices[events'[e].index + 1])
             /\ Cardinality(ReleaseEvents(events')) = Cardinality(ActiveVoices)
          \/ ~SetMaxVoices(n)]_vars

\* C19 witness: a held note sounds on a voice, another pitch is not held, and
\* the last operation fired no callback
C19_Witness ==
  /\ events = <<>>
  /\ Len(k_notes) = 1
  /\ k_notes[1].notenum = 60
  /\ 64 \notin HeldPitches
  /\ ActiveVoices # {}
  /\ Cardinality(ActiveVoices) < Len(voices)
  /\ ~a_active

\* s runs upwards (dir = 1) or downwards (dir = -1) by pitch
Monotone(s, dir) ==
  \A i \in 1..(Len(s) - 1) : dir * s[i].notenum <= dir * s[i + 1].notenum

\* s is the notes of base ordered by pitch in direction dir, followed, when
\* there are more than two and turn is set, by the interior in reverse
IsOrdering(s, base, dir, turn) ==
  LET n == Len(base)
  IN /\ Len(s) = IF turn /\ n > 2 THEN 2 * n - 2 ELSE n
     /\ SameBag(SubSeq(s, 1, n), base)
     /\ Monotone(SubSeq(s, 1, n), dir)
     /\ \A j \in 1..(Len(s) - n) : s[n + j] = s[n - j]

\* C20: the derived playback sequence is the reference ordering of the notes
\* and their octave copies for the mode: UP ascending, DOWN descending,
\* UPDOWN ascending then the reversed interior, DOWNUP descending then the
\* reversed interior, PLAYED and RANDOM the order received
C20_ModeOrdering ==
  LET base == IF a_raw_notes = <<>> THEN <<>>
              ELSE Transposed(a_raw_notes, a_octaves)
  IN /\ a_mode = UP => IsOrdering(a_notes, base, 1, FALSE)
     /\ a_mode = DOWN => IsOrdering(a_notes, base, -1, FALSE)
     /\ a_mode = UPDOWN => IsOrdering(a_notes, base, 1, TRUE)
     /\ a_mode = DOWNUP => IsOrdering(a_notes, base, -1, TRUE)
     /\ a_mode \in {PLAYED, RANDOM} => a_notes = base

\* C20 witness: 64 60 67 received in DOWNUP mode plays 67 64 60 64
C20_Witness ==
  /\ a_mode = DOWNUP
  /\ a_octaves = 0
  /\ Notenums(a_raw_notes) = <<64, 60, 67>>
  /\ Notenums(a_notes) = <<67, 64, 60, 64>>

\* the voice at position i is concerned by some callback logged in evs
Touched(evs, i, vs) ==
  \E e \in 1..Len(evs) :
    evs[e].type \in {"voice_press", "voice_release"} /\ evs[e].index = vs[i].index

\* every active voice of st whose Note object is in the selection view of
\* the result r is the same in r and no callback concerned it; the Notes of
\* the pitches in replaced are new objects in r
KeptUntouched(st, r, replaced) ==
  \A i \in 1..Len(st.voices) :
    (/\ Voice_active(st.voices[i])
     /\ st.voices[i].note.notenum \notin replaced
     /\ \E n \in 1..Len(Keyboard_notes(r)) :
          Keyboard_notes(r)[n].id = st.voices[i].note.id)
      => /\ r.voices[i] = st.voices[i]
         /\ ~Touched(r.events, i, st.voices)

\* C21: with no arpeggiator active, an append, a remove or a sustain change
\* leaves every active voice whose Note object is still in the selection
\* view as it was (index, note, assignment time) and fires no voice_press or
\* voice_release for it
C21_HeldVoicesUntouched ==
  ~(arpeggiator /\ a_active) =>
    /\ \A p \in Pitches, v \in Velocities :
         KeptUntouched(State, Keyboard_append(State, p, v), {p})
    /\ \A p \in Pitches, rs \in BOOLEAN :
         KeptUntouched(State, Keyboard_remove(State, p, rs), {})
    /\ \A b \in BOOLEAN : KeptUntouched(State, Keyboard_set_sustain(State, b), {})

\* the states in which append, remove and a sustain change call _update: the
\* lists are changed, the voices not yet re-allocated
BeforeUpdate ==
  {Keyboard_remove_no_update(State, p, rs) : p \in Pitches, rs \in BOOLEAN}
    \cup {[State EXCEPT !.sustain = ~k_sustain,
                        !.sustained = IF ~k_sustain THEN k_notes ELSE <<>>]}
    \cup {LET st1 == Keyboard_remove(State, p, TRUE)
              note == Note(FreshId(st1), p, 10, st1.clock)
          IN [st1 EXCEPT !.notes = Append(@, note),
                         !.sustained = IF st1.sustain THEN Append(@, note) ELSE @,
                         !.events = <<>>] :
          p \in Pitches}

NoteIds(ns) == {ns[i].id : i \in 1..Len(ns)}

\* the candidates no active voice of m holds, in candidate order
NewNotes(m) ==
  LET held == {m.voices[i].note.id : i \in {j \in 1..Len(m.voices) :
                                             Voice_active(m.voices[j])}}
  IN SelectSeq(Keyboard_notes(m), LAMBDA n : n.id \notin held)

\* the voices of m that are inactive or hold no candidate, oldest first
FreeVoices(m) ==
  LET idx == SelectSeq([i \in 1..Len(m.voices) |-> i],
                       LAMBDA i : \/ ~Voice_active(m.voices[i])
                                  \/ m.voices[i].note.id \notin NoteIds(Keyboard_notes(m)))
  IN StableSort(idx, VoiceTimes(m.voices, idx))

\* the voice_press callbacks among evs, in order
Presses(evs) ==
  LET ps == SelectSeq(evs, LAMBDA ev : ev.type = "voice_press")
  IN [i \in 1..Len(ps) |-> <<ps[i].index, ps[i].notenum>>]

\* C22: a re-allocation assigns the candidates that no voice holds, in
\* candidate order, one-to-one to the inactive voices taken oldest first,
\* with exactly one voice_press per assignment
C22_NewNotesInOrder ==
  ~(arpeggiator /\ a_active) =>
    \A m \in BeforeUpdate :
      LET r == update_voices(m, Keyboard_notes(m))
          new == NewNotes(m)
          free == FreeVoices(m)
          k == Min(Len(new), Len(free))
      IN /\ \A a, b \in 1..Len(new) : a # b => new[a].id # new[b].id
         /\ Presses(r.events)
              = [j \in 1..k |-> <<m.voices[free[j]].index, new[j].notenum>>]
         /\ \A j \in 1..k : r.voices[free[j]].note = new[j]

\* what can be observed of the voices: index, assignment time and the note held
VoicesView ==
  [i \in 1..Len(voices) |->
     <<voices[i].index, voices[i].time, voices[i].note.notenum,
       voices[i].note.velocity, voices[i].note.timestamp>>]

\* no voice changed, no voice callback fired, and the arpeggiator holds the
\* whole live list followed by the whole sustained list
PushedToArpeggiator ==
  /\ VoicesView' = VoicesView
  /\ \A e \in 1..Len(events') :
       events'[e].type \notin {"voice_press", "voice_release"}
  /\ a_raw_notes' = ArpNotes(k_notes' \o k_sustained')

\* C23: while the attached arpeggiator is active, append, remove and sustain
\* changes change no voice and fire no voice callback, and the arpeggiator's
\* raw note set becomes live followed by sustained, neither cut to max_voices
\* nor reordered by the keyboard mode
C23_ArpeggiatorGetsAllNotes ==
  [][(arpeggiator /\ a_active) =>
       /\ \A p \in Pitches, v \in Velocities :
            PushedToArpeggiator \/ ~AppendNote(p, v)
       /\ \A p \in Pitches, rs \in BOOLEAN :
            PushedToArpeggiator \/ ~RemoveNote(p, rs)
       /\ \A b \in BOOLEAN : PushedToArpeggiator \/ ~SetSustain(b)]_vars

\* C23 witness: with one voice and mode HIGH the active arpeggiator holds
\* 60 then 64, more notes than voices and in the order played
C23_Witness ==
  /\ arpeggiator /\ a_active
  /\ max_voices = 1
  /\ k_mode = HIGH
  /\ Notenums(k_notes) = <<60, 64>>
  /\ Notenums(a_raw_notes) = <<60, 64>>
  /\ events = <<>>
  /\ a_trace = <<>>

IsVoiceEvent(ev) == ev.type \in {"voice_press", "voice_release"}

\* the voice callbacks that follow the callback at e, up to the next callback
\* that is not a voice callback
VoiceRun(evs, e) ==
  LET stop == IF \E f \in (e + 1)..Len(evs) : ~IsVoiceEvent(evs[f])
              THEN CHOOSE f \in (e + 1)..Len(evs) :
                     /\ ~IsVoiceEvent(evs[f])
                     /\ \A g \in (e + 1)..(f - 1) : IsVoiceEvent(evs[g])
              ELSE Len(evs) + 1
  IN [i \in 1..(stop - e - 1) |-> <<evs[e + i].type, evs[e + i].notenum>>]

\* C24: each press of the attached arpeggiator makes the Keyboard fire
\* exactly one voice callback, a voice_press for the pressed pitch, and each
\* release exactly one, a voice_release for the voice holding that pitch
C24_OneVoicePerTimerEvent ==
  arpeggiator =>
    \A e \in 1..Len(events) :
      /\ events[e].type = "press"
           => VoiceRun(events, e) = <<<<"voice_press", events[e].notenum>>>>
      /\ events[e].type = "release"
           => VoiceRun(events, e) = <<<<"voice_release", events[e].notenum>>>>

\* C25: the pitches pressed in a step are released, each once and in order,
\* at the end of the gate of that step, and a step presses only when no
\* pitch of an earlier step is pending, so presses and releases of
\* successive steps do not interleave (here: the Arpeggiator, gate 0, 0.5, 1)
C25_ReleaseBeforeNextPress ==
  [][/\ Pressed(events') # <<>>
          => /\ a_pc = "top" /\ a_pc' = "gate"
             /\ last_press = <<>>
             /\ last_press' = Pressed(events')
     /\ (a_pc = "gate" /\ a_pc' = "rest")
          => /\ events' = Releases(last_press, "arpeggiator")
             /\ last_press' = <<>>
     /\ a_pc' \in {"top", "rest", "idle"} => last_press' = <<>>]_vars

\* C25 witness: with gate 0 the pitch pressed by the last step has just been
\* released at the end of its gate
C25_Witness ==
  /\ a_active
  /\ a_pc = "rest"
  /\ t_gate = 0
  /\ events = Releases(<<60>>, "arpeggiator")
  /\ last_press = <<>>

\* C26: when the gate of a step ends and its pitches are released, the time
\* suspended since the press is gate_duration, also in the first step after
\* an enable and after a note set is assigned to an arpeggiator without notes
C26_HoldIsGateDuration ==
  [][(/\ a_pc = "gate" /\ a_pc' = "rest"
      /\ \E e \in 1..Len(events') : events'[e].type = "release")
       => clock' - clock = t_gate_duration]_vars

\* C27: assigning notes and setting the gate leave the scheduling cursor as
\* it is, and the suspensions of the loop only add their delay to it: the
\* gate or the whole step after a step, the rest of the step after the gate
C27_CursorOnlyAdvances ==
  [][/\ \A ns \in TimerNotes : ArpAssign(ns) => t_now' = t_now
     /\ \A g \in {0, 5, 10} : TimerSetGate(g) => t_now' = t_now
     /\ TimedStep => t_now' - t_now \in {t_gate_duration, t_step_time}
     /\ TimedGateEnd => t_now' - t_now = t_step_time - t_gate_duration
     /\ (TimedRestEnd \/ TimedWake) => t_now' = t_now]_vars

\* C28: whatever callbacks are registered, a step records the pitch it hands
\* to the press hook in last_press and nothing else is pending then, and
\* last_press is empty after the release at the end of the gate and after a
\* disable
C28_LastPressPerStep ==
  [][/\ (a_pc = "top" /\ a_pc' # "top" /\ a_active /\ a_notes # <<>>)
          => last_press' = <<a_notes[a_pos' + 1].notenum>>
     /\ (a_pc = "gate" /\ a_pc' = "rest") => last_press' = <<>>
     /\ (a_active /\ ~a_active') => last_press' = <<>>]_vars

\* C29: enabling a stopped timer puts the cursor one step_time before the
\* clock and invokes enabled(true) once; the next iteration of the loop then
\* steps without suspending first; setting active to its current value fires
\* no callback, releases nothing and changes nothing
C29_EnableStepsAtOnce ==
  [][/\ (~a_active /\ ArpSetActive(TRUE))
          => /\ a_active'
             /\ t_now' = clock - t_step_time
             /\ events' = IF a_enabled
                          THEN <<[type |-> "enabled", timer |-> "arpeggiator",
                                  active |-> TRUE]>>
                          ELSE <<>>
     /\ (a_pc = "top" /\ a_active /\ a_pc' # "top")
          => /\ clock' = clock
             /\ a_pc' \in {"gate", "rest"}
             /\ a_notes # <<>> => Pressed(events') # <<>>
     /\ \A b \in BOOLEAN :
          (b = a_active /\ ArpSetActive(b))
            => /\ events' = <<>>
               /\ UNCHANGED <<a_active, last_press, t_now, t_wake, clock, a_pos,
                              a_notes, a_raw_notes, voices, a_pc>>]_vars

\* C29 witness: the timer was enabled some time after its construction and
\* enabled(true) is the one callback of the operation
C29_Witness ==
  /\ a_active
  /\ clock > 0
  /\ t_now = clock - t_step_time
  /\ events = <<[type |-> "enabled", timer |-> "arpeggiator", active |-> TRUE]>>

\* length of the playback list of n raw notes under octaves k and mode m
PlaybackLen(n, k, m) ==
  LET all == n * (Abs(k) + 1)
  IN all + (IF m \in {UPDOWN, DOWNUP} /\ all > 2 THEN all - 2 ELSE 0)

\* C30: setting mode or octaves while notes are held recomputes the playback
\* list from the raw notes as a fresh assignment under the new setting would,
\* without accumulating octave copies or turn-around tails, and leaves the raw
\* notes as they were
C30_RecomputedFromRaw ==
  [][/\ \A m \in UP..RANDOM :
          \/ a_notes = <<>>
          \/ /\ a_notes' = Arpeggiator_get_notes(a_raw_notes, a_octaves, m)
             /\ Len(a_notes') = PlaybackLen(Len(a_raw_notes), a_octaves, m)
             /\ a_raw_notes' = a_raw_notes
             /\ a_mode' = m
             /\ a_octaves' = a_octaves
          \/ ~ArpSetMode(m)
     /\ \A k \in (-MaxOctaves)..MaxOctaves :
          \/ a_notes = <<>>
          \/ /\ a_notes' = Arpeggiator_get_notes(a_raw_notes, k, a_mode)
             /\ Len(a_notes') = PlaybackLen(Len(a_raw_notes), k, a_mode)
             /\ a_raw_notes' = a_raw_notes
             /\ a_octaves' = k
             /\ a_mode' = a_mode
          \/ ~ArpSetOctaves(k)]_vars

\* C30 witness: two raw notes played up and down over one octave above, from
\* where lowering the octaves gives the six entries of the octave below
C30_Witness ==
  /\ a_mode = UPDOWN
  /\ a_octaves = 1
  /\ Notenums(a_raw_notes) = <<64, 60>>
  /\ Notenums(a_notes) = <<60, 64, 72, 76, 72, 64>>
  /\ Notenums(Arpeggiator_set_octaves(State, -1).a_notes) = <<48, 52, 60, 64, 60, 52>>
  /\ Arpeggiator_set_octaves(State, -1).a_raw_notes = a_raw_notes

\* C31: when append(p) finds pitch p in the sustain snapshot, its removal
\* step leaves every sustained Note of pitch p in the snapshot and the whole
\* append fires no voice_release for pitch p
C31_AppendKeepsSustained ==
  \A p \in Pitches :
    (k_sustain /\ \E i \in 1..Len(k_sustained) : k_sustained[i].notenum = p)
      => LET st1 == Keyboard_remove(State, p, TRUE)
             r == Keyboard_append(State, p, 10)
         IN /\ \A i \in 1..Len(k_sustained) :
                 k_sustained[i].notenum = p
                   => \E j \in 1..Len(st1.sustained) :
                        st1.sustained[j] = k_sustained[i]
            /\ \A e \in 1..Len(r.events) :
                 ~(r.events[e].type = "voice_release" /\ r.events[e].notenum = p)

\* pitches held by the active voices, and pitches of the selection view
VoicePitches == {voices[i].note.notenum : i \in ActiveVoices}

SelectionPitches ==
  {Keyboard_notes(State)[i].notenum : i \in 1..Len(Keyboard_notes(State))}

\* C32: when the attached arpeggiator is disabled while notes are held, the
\* active voices hold the selection view of the held notes as soon as the
\* disable returns
C32_DisableResumesAllocation ==
  [][\/ ~(arpeggiator /\ a_active /\ all_notes(State) # <<>>)
     \/ VoicePitches' = SelectionPitches'
     \/ ~ArpSetActive(FALSE)]_vars

\* C33: with an Arpeggiator playing pitch 60 and a Sequencer playing pitch 62
\* side by side, each release callback is handed only pitches its own timer
\* pressed
C33_PendingPerTimer ==
  \A e \in 1..Len(events) :
    events[e].type = "release"
      => /\ events[e].timer = "arpeggiator" => events[e].notenum = 60
         /\ events[e].timer = "sequencer" => events[e].notenum = 62

\* the lists, the selection view and the voices of each Keyboard
First == <<k_notes, k_sustained, Keyboard_notes(KeyboardView(1)), voices>>

Second == <<k2_notes, k2_sustained, Keyboard_notes(KeyboardView(2)), k2_voices>>

\* C34: append, remove and sustain changes on one Keyboard leave the live
\* list, the sustained list, the selection view and the voices of the other
\* Keyboard as they were, and a newly constructed Keyboard holds no notes
C34_KeyboardsIndependent ==
  [][/\ \/ Second' = Second
        \/ ~(\/ \E p \in Pitches, v \in Velocities : AppendOn(1, p, v)
             \/ \E p \in Pitches, rs \in BOOLEAN : RemoveOn(1, p, rs)
             \/ \E b \in BOOLEAN : SustainOn(1, b))
     /\ \/ First' = First
        \/ ~(\/ \E p \in Pitches, v \in Velocities : AppendOn(2, p, v)
             \/ \E p \in Pitches, rs \in BOOLEAN : RemoveOn(2, p, rs)
             \/ \E b \in BOOLEAN : SustainOn(2, b))
     /\ \/ k2_notes' = <<>>
        \/ ~Construct]_vars

\* C35: the position of the Sequencer is at least 0 and below its length in
\* every reachable state, and lies inside every track of the grid
C35_PositionInGrid ==
  /\ 0 <= s_pos
  /\ s_pos < s_length
  /\ \A i \in 1..Len(s_data) : s_pos < Len(s_data[i])

\* C36: whatever changes of the note set, the mode and the octaves come between
\* the steps of the arpeggiator, a step leaves the cursor inside the current
\* playback list and presses the pitch of the entry at the cursor, and a step
\* with an empty list presses nothing and leaves the cursor where it was
C36_StepInsideNotes ==
  [][(a_pc = "top" /\ a_active /\ a_pc' # "top")
       => /\ a_notes' = a_notes
          /\ a_notes = <<>>
               => /\ Pressed(events') = <<>>
                  /\ a_pos' = a_pos
                  /\ last_press' = last_press
          /\ a_notes # <<>>
               => /\ a_pos' \in 0..(Len(a_notes) - 1)
                  /\ Len(Pressed(events')) <= 1
                  /\ \A i \in 1..Len(Pressed(events')) :
                       Pressed(events')[i] = a_notes[a_pos' + 1].notenum]_vars

\* C36 witness: the playback list was cut below the cursor while the loop is
\* about to step, and the step from here presses the first entry
C36_Witness ==
  /\ a_active
  /\ a_pc = "top"
  /\ a_notes # <<>>
  /\ a_pos >= Len(a_notes)
  /\ a_mode # RANDOM
  /\ Arpeggiator_update(State, FALSE, 0).a_pos = 0
  /\ Pressed(Arpeggiator_update(State, FALSE, 0).events) = <<a_notes[1].notenum>>

\* C37: no two active voices of the Keyboard hold the same pitch
C37_VoicePitchesDistinct ==
  \A i, j \in ActiveVoices :
    i # j => voices[i].note.notenum # voices[j].note.notenum

\* the Notes held by the active voices of st, in voice order
VoiceNotes(st) ==
  LET act == SelectSeq(st.voices, Voice_active)
  IN [i \in 1..Len(act) |-> act[i].note]

\* the states an append, a remove of a held pitch or a change of sustain
\* can leave behind
AfterUpdate ==
  {Keyboard_append(State, p, v) : p \in Pitches, v \in Velocities}
    \cup {Keyboard_remove(State, p, rs) : p \in HeldPitches, rs \in BOOLEAN}
    \cup {Keyboard_set_sustain(State, ~k_sustain)}

C39_SilentWhenNothingHeld ==
  <>[](k_notes = <<>> /\ k_sustained = <<>>) => <>[](ActiveVoices = {})

\* the pitches passed to the release callback, in order
Released(evs) ==
  LET rs == SelectSeq(evs, LAMBDA e : e.type = "release")
  IN [i \in 1..Len(rs) |-> rs[i].notenum]

\* C40: with press and release registered on the one running timer, a pitch
\* passed to press becomes pending, pending pitches leave only by being
\* passed to release, each once, at the end of the gate or when the timer is
\* disabled, whichever comes first, and a pending pitch does not stay pending
\* for ever
C40_PressedThenReleasedOnce ==
  /\ [][/\ Pressed(events') # <<>>
             => /\ a_pc = "top" /\ a_pc' = "gate"
                /\ last_press' = last_press \o Pressed(events')
                /\ Released(events') = <<>>
        /\ Released(events') # <<>>
             => /\ (a_pc = "gate" /\ a_pc' = "rest") \/ (a_active /\ ~a_active')
                /\ Released(events') = last_press
        /\ (a_pc = "gate" /\ a_pc' = "rest") \/ (a_active /\ ~a_active')
             => /\ Released(events') = last_press
                /\ last_press' = <<>>
        /\ last_press' # last_press
             => Pressed(events') # <<>> \/ Released(events') # <<>>]_vars
  /\ (last_press # <<>>) ~> (last_press = <<>>)

\* C40 witness: the timer was disabled during the gate of a step and the
\* pitch of that step went to release then, before the gate ended
C40_Witness ==
  /\ ~a_active
  /\ a_pc = "gate"
  /\ a_press /\ a_release
  /\ Released(events) = <<60>>
  /\ last_press = <<>>
====
